---- MODULE Spec2Model ----
(***************************************************************************)
(* Model of the repository-maintenance assistant's GitHub access layer:    *)
(*   - GitHubClient._request  (python_lib/github_client/client.py), the    *)
(*     bounded-retry HTTP client;                                          *)
(*   - GithubService._request (python/github_service.py), the client the   *)
(*     command line uses;                                                  *)
(*   - the pull-request enrichment of both classes and its derivations.    *)
(***************************************************************************)
EXTENDS Integers, Sequences, FiniteSets, TLC

(***************************************************************************)
(* State of one _request call.                                             *)
(***************************************************************************)
VARIABLES
    impl,       \* "client" (GitHubClient) or "service" (GithubService)
    method,     \* HTTP method of the call
    is_text,    \* the is_text argument
    pc,         \* "attempt" | "backoff" | "done" | "raised"
    retries,    \* the local variable retries of GitHubClient._request
    attempts,   \* number of requests.request calls made so far
    outcomes,   \* per attempt, "ok" or "fail", in order
    sleeps,     \* the arguments of the time.sleep calls made so far, in order
    lastResp,   \* what the transport gave to the latest attempt
    parsed,     \* whether the latest attempt read the response body
    excs,       \* per attempt, the exception raised inside it, or NoExc
    result,     \* the value returned to the caller, or NoResult
    error,      \* the exception propagated to the caller, or NoExc
    applied     \* number of attempts the provider answered with a 2xx status

reqVars == <<impl, method, is_text, pc, retries, attempts, outcomes, sleeps,
             lastResp, parsed, excs, result, error, applied>>

(***************************************************************************)
(* State of one fetch_enriched_pull_requests call.                         *)
(***************************************************************************)
VARIABLES
    phase,      \* "idle" | "list" | "enrich" | "done" | "raised"
    prs,        \* the list fetch_pull_requests returned
    fetches,    \* per position of subset and endpoint, the state of its fetch
    produced,   \* the positions of subset whose record has been produced
    results,    \* the list results
    shared      \* the positions whose record is the very object of the list

enrVars == <<phase, prs, fetches, produced, results, shared>>

(***************************************************************************)
(* State of one evaluation of a derivation rule of the enrichment.         *)
(***************************************************************************)
VARIABLES
    d_kind,     \* "idle", or the input drawn: "checks" | "reviews"
    d_in,       \* the input: check_results, or reviews
    d_out       \* NotDerived, then Derived(test_status) or Derived(is_approved)

derVars == <<d_kind, d_in, d_out>>

(***************************************************************************)
(* State of the other calls modelled, one record of locals per call.       *)
(***************************************************************************)
VARIABLES
    cap,        \* fetch_enriched_pull_requests, counting submissions and records
    ctx,        \* fetch_core_repo_context
    cli,        \* main() of python/main.py
    jules,      \* JulesService.list_sessions
    stats,      \* GithubService.fetch_repo_stats
    fan,        \* the requests.request calls made for each fetch of the fan-out
    hdr         \* concurrent _request calls and the header dicts they use

auxVars == <<cap, ctx, cli, jules, stats, fan, hdr>>

vars == <<reqVars, enrVars, derVars, auxVars>>

(***************************************************************************)
(* What the transport (requests.request) can give to one attempt.          *)
(***************************************************************************)
Methods == {"GET", "POST", "PATCH", "DELETE"}
StatusCodes == {200, 204, 304, 403, 404, 429, 500}
RemainingHeader == {"0", "57", "absent"}
\* Response bodies: a JSON object with a "message" member, a JSON object
\* without one, a JSON array, and text that is not JSON (or is empty).
Bodies == {"obj_msg", "obj_nomsg", "array", "invalid"}

NoResponse == [kind |-> "none"]
ConnectionFailure == [kind |-> "ConnectionError"]
Responses == [kind : {"response"}, status : StatusCodes,
              remaining : RemainingHeader, body : Bodies]
TransportOutcomes == {ConnectionFailure} \cup Responses

ProviderMessage == "Not Found"

Parses(body) == body # "invalid"
IsObject(body) == body \in {"obj_msg", "obj_nomsg"}
HasMessage(body) == body = "obj_msg"

(***************************************************************************)
(* Values and exceptions.                                                  *)
(***************************************************************************)
NoResult == [kind |-> "none"]
EmptyObj == [kind |-> "empty_object"]
Text(body) == [kind |-> "text", body |-> body]
Json(body) == [kind |-> "json", body |-> body]

NoExc == [type |-> "none"]
Exc(msg) == [type |-> "Exception", msg |-> msg]
RateLimitExc == Exc("GitHub API Rate Limit Exceeded.")
JSONDecodeError == [type |-> "JSONDecodeError"]
ConnectionError == [type |-> "ConnectionError"]

Return(v, read) == [raised |-> FALSE, value |-> v, exc |-> NoExc, parsed |-> read]
Raise(e, read) == [raised |-> TRUE, value |-> NoResult, exc |-> e, parsed |-> read]

\* requests.Response.ok: raise_for_status() raises for 400 <= status < 600 only.
ok(response) == ~(400 <= response.status /\ response.status < 600)

IsRateLimited_429Only(response) == response.status = 429
IsRateLimited(response) ==
    \/ response.status = 429
    \/ (response.status = 403 /\ response.remaining = "0")

\* The provider carried the request out: it answered with a 2xx status.
Applied(t) == t.kind = "response" /\ 200 <= t.status /\ t.status < 300

GenericMessage(response) == "Error: " \o ToString(response.status)

\* error_body = response.json(); error_body.get('message', f'Error: {status}')
\* with a bare except around both: a body that does not parse, or that is not
\* an object (no .get), gives the generic message.
Client_error_message(response) ==
    IF Parses(response.body) /\ IsObject(response.body)
    THEN IF HasMessage(response.body) THEN ProviderMessage
         ELSE GenericMessage(response)
    ELSE GenericMessage(response)

\* error_message = f"Error: {status}"; replaced by error_body['message'] when
\* the body parses and 'message' in error_body.
Service_error_message(response) ==
    IF Parses(response.body) /\ HasMessage(response.body)
    THEN ProviderMessage
    ELSE GenericMessage(response)

Client_is_204(m, response) == response.status = 204
Service_is_204_MethodInverted(m, response) == m = "GET" /\ response.status = 204
Service_is_204(m, response) == m # "GET" /\ response.status = 204

\* The body of the try block of GitHubClient._request, for one attempt.
Client_try_ParseFailureIgnored(m, text, t) ==
    IF t.kind = "ConnectionError" THEN Raise(ConnectionError, FALSE)
    ELSE IF IsRateLimited(t) THEN Raise(RateLimitExc, FALSE)
    ELSE IF ~ok(t) THEN Raise(Exc(Client_error_message(t)), TRUE)
    ELSE IF Client_is_204(m, t) THEN Return(EmptyObj, FALSE)
    ELSE IF text THEN Return(Text(t.body), TRUE)
    ELSE IF Parses(t.body) THEN Return(Json(t.body), TRUE)
    ELSE Return(EmptyObj, TRUE)
Client_try(m, text, t) ==
    IF t.kind = "ConnectionError" THEN Raise(ConnectionError, FALSE)
    ELSE IF IsRateLimited(t) THEN Raise(RateLimitExc, FALSE)
    ELSE IF ~ok(t) THEN Raise(Exc(Client_error_message(t)), TRUE)
    ELSE IF Client_is_204(m, t) THEN Return(EmptyObj, FALSE)
    ELSE IF text THEN Return(Text(t.body), TRUE)
    ELSE IF Parses(t.body) THEN Return(Json(t.body), TRUE)
    ELSE Raise(JSONDecodeError, TRUE)

\* GithubService._request from requests.request to its return.
Service_try(m, text, t) ==
    IF t.kind = "ConnectionError" THEN Raise(ConnectionError, FALSE)
    ELSE IF IsRateLimited(t) THEN Raise(RateLimitExc, FALSE)
    ELSE IF ~ok(t) THEN Raise(Exc(Service_error_message(t)), TRUE)
    ELSE IF Service_is_204(m, t) THEN Return(EmptyObj, FALSE)
    ELSE IF text THEN Return(Text(t.body), TRUE)
    ELSE IF Parses(t.body) THEN Return(Json(t.body), TRUE)
    ELSE Raise(JSONDecodeError, TRUE)

(***************************************************************************)
(* The retry loop of GitHubClient._request.                                *)
(***************************************************************************)
RetryBudgetOffByOne == 2 + 1
RetryBudget == 2

Exhausted(r) == r = 0

\* except Exception as e: ... raise e -- e is the exception of the attempt
\* whose handler is running, the latest one.
PropagatedFirst(es) == es[1]
Propagated(es) == es[Len(es)]

SleepSecondsBeforeDecrement(r) == 2 - (r + 1)
SleepSeconds(r) == 2 - r

InitRequest ==
    /\ impl \in {"client", "service"}
    /\ method \in Methods
    /\ is_text \in BOOLEAN
    /\ pc = "attempt"
    /\ retries = IF impl = "client" THEN RetryBudget ELSE 0
    /\ attempts = 0
    /\ outcomes = << >>
    /\ sleeps = << >>
    /\ lastResp = NoResponse
    /\ parsed = FALSE
    /\ excs = << >>
    /\ result = NoResult
    /\ error = NoExc
    /\ applied = 0

\* One pass of the while loop up to the return, the raise or the decrement.
ClientAttempt ==
    /\ impl = "client"
    /\ pc = "attempt"
    /\ retries >= 0
    /\ \E t \in TransportOutcomes :
        LET r == Client_try(method, is_text, t) IN
        /\ attempts' = attempts + 1
        /\ applied' = IF Applied(t) THEN applied + 1 ELSE applied
        /\ lastResp' = t
        /\ parsed' = r.parsed
        /\ excs' = Append(excs, r.exc)
        /\ outcomes' = Append(outcomes, IF r.raised THEN "fail" ELSE "ok")
        /\ IF ~r.raised
           THEN /\ pc' = "done"
                /\ result' = r.value
                /\ UNCHANGED <<retries, error>>
           ELSE IF Exhausted(retries)
           THEN /\ pc' = "raised"
                /\ error' = Propagated(Append(excs, r.exc))
                /\ UNCHANGED <<retries, result>>
           ELSE /\ pc' = "backoff"
                /\ retries' = retries - 1
                /\ UNCHANGED <<result, error>>
    /\ UNCHANGED <<impl, method, is_text, sleeps>>
    /\ UNCHANGED <<enrVars, derVars, auxVars>>

\* time.sleep(2 - retries), after the decrement.
ClientBackoff ==
    /\ impl = "client"
    /\ pc = "backoff"
    /\ sleeps' = Append(sleeps, SleepSeconds(retries))
    /\ pc' = "attempt"
    /\ UNCHANGED <<impl, method, is_text, retries, attempts, outcomes,
                   lastResp, parsed, excs, result, error, applied>>
    /\ UNCHANGED <<enrVars, derVars, auxVars>>

\* GithubService._request: one request, no loop.
ServiceRequest ==
    /\ impl = "service"
    /\ pc = "attempt"
    /\ \E t \in TransportOutcomes :
        LET r == Service_try(method, is_text, t) IN
        /\ attempts' = attempts + 1
        /\ applied' = IF Applied(t) THEN applied + 1 ELSE applied
        /\ lastResp' = t
        /\ parsed' = r.parsed
        /\ excs' = Append(excs, r.exc)
        /\ outcomes' = Append(outcomes, IF r.raised THEN "fail" ELSE "ok")
        /\ IF r.raised
           THEN /\ pc' = "raised"
                /\ error' = r.exc
                /\ UNCHANGED result
           ELSE /\ pc' = "done"
                /\ result' = r.value
                /\ UNCHANGED error
    /\ UNCHANGED <<impl, method, is_text, retries, sleeps>>
    /\ UNCHANGED <<enrVars, derVars, auxVars>>

(***************************************************************************)
(* Pull-request enrichment: fetch_enriched_pull_requests of both classes.  *)
(***************************************************************************)
MaxPRs == 3
MaxClientPRs == 2
EnrichCap == 50

Endpoints == {"details", "reviews", "checks"}

\* dict merge: {**a, **b} and a.copy().update(b)
Merge(a, b) ==
    [k \in (DOMAIN a) \cup (DOMAIN b) |-> IF k \in DOMAIN b THEN b[k] ELSE a[k]]

\* JSON values of a member that is a number or null.
JNull == [json |-> "null"]
JNum(n) == [json |-> "number", v |-> n]

Min(a, b) == IF a < b THEN a ELSE b

\* prs[:50]
subset_NoCap(list) == list
subset(list) == SubSeq(list, 1, Min(Len(list), EnrichCap))

(***************************************************************************)
(* The provider's data, fixed per pull-request number.                     *)
(***************************************************************************)
ListEntry(n) ==
    [number |-> n, state |-> "open", head |-> [sha |-> "sha" \o ToString(n)]]

UpstreamDetails(n) ==
    CASE n = 1 -> Merge(ListEntry(n), [base |-> [ref |-> "main"],
                        mergeable |-> "true", changed_files |-> JNum(20)])
      [] n = 2 -> Merge(ListEntry(n), [base |-> [ref |-> "feature/x"],
                        mergeable |-> "null", changed_files |-> JNum(3)])
      [] n = 3 -> Merge(ListEntry(n), [base |-> [ref |-> "Develop"],
                        mergeable |-> "false"])
      [] OTHER -> Merge(ListEntry(n), [base |-> [ref |-> "LEADER"],
                        mergeable |-> "true", changed_files |-> JNum(15)])

Review(login, state) == [user |-> [login |-> login], state |-> state]

UpstreamReviews(n) ==
    CASE n = 1 -> <<Review("bob", "APPROVED")>>
      [] n = 2 -> <<Review("A", "APPROVED"), Review("A", "CHANGES_REQUESTED")>>
      [] n = 3 -> << >>
      [] OTHER -> <<Review("A", "CHANGES_REQUESTED"), Review("A", "APPROVED"),
                    Review("B", "COMMENTED")>>

\* A check-run as the provider sends it; a null conclusion is "null".
Run(name, status, conclusion) ==
    [name |-> name, status |-> status, conclusion |-> conclusion,
     html_url |-> "https://checks/" \o name]

UpstreamCheckRuns(n) ==
    CASE n = 1 -> [check_runs |-> <<Run("build", "completed", "success")>>]
      [] n = 2 -> [check_runs |-> <<Run("build", "completed", "failure"),
                                    Run("lint", "completed", "success")>>]
      [] n = 3 -> [check_runs |-> << >>]
      [] OTHER -> [check_runs |-> <<Run("build", "in_progress", "null"),
                                    Run("lint", "completed", "success")>>]

(***************************************************************************)
(* Derivations.                                                            *)
(***************************************************************************)
Raised == [raised |-> TRUE]
Value(v) == [raised |-> FALSE, value |-> v]

CheckResult(run) ==
    [name |-> run.name, status |-> run.status, conclusion |-> run.conclusion,
     url |-> run.html_url]

Project(runs) == [i \in 1..Len(runs) |-> CheckResult(runs[i])]

\* fetch_check_runs: the projection of data['check_runs'], [] when the
\* request raised.
Client_fetch_check_runs(outcome) ==
    IF outcome.raised THEN Value(<< >>)
    ELSE Value(Project(outcome.value.check_runs))

Service_fetch_check_runs(outcome) ==
    IF outcome.raised THEN Value(<< >>)
    ELSE Value(Project(outcome.value.check_runs))

IsFailedRun(r) == r.conclusion = "failure" \/ r.conclusion = "timed_out"
IsPendingRun(r) == r.status # "completed"

\* len([r for r in check_results if ...])
failed_count(check_results) ==
    Cardinality({i \in 1..Len(check_results) : IsFailedRun(check_results[i])})
pending_count(check_results) ==
    Cardinality({i \in 1..Len(check_results) : IsPendingRun(check_results[i])})

Client_test_status_PendingFirst(check_results) ==
    IF pending_count(check_results) > 0 THEN "pending"
    ELSE IF failed_count(check_results) > 0 THEN "failed"
    ELSE IF Len(check_results) > 0 THEN "passed"
    ELSE "unknown"
Client_test_status(check_results) ==
    IF failed_count(check_results) > 0 THEN "failed"
    ELSE IF pending_count(check_results) > 0 THEN "pending"
    ELSE IF Len(check_results) > 0 THEN "passed"
    ELSE "unknown"

Service_test_status(check_results) ==
    IF failed_count(check_results) > 0 THEN "failed"
    ELSE IF pending_count(check_results) > 0 THEN "pending"
    ELSE IF Len(check_results) > 0 THEN "passed"
    ELSE "unknown"

\* for r in reviews: latest_reviews_by_user[r['user']['login']] = r['state']
RECURSIVE latest_reviews_by_user(_, _)
latest_reviews_by_user(reviews, acc) ==
    IF reviews = << >> THEN acc
    ELSE LET r == Head(reviews) IN
         latest_reviews_by_user(Tail(reviews),
                                Merge(acc, [l \in {r.user.login} |-> r.state]))

EmptyDict == [k \in {} |-> "none"]

review_states(reviews) ==
    LET latest == latest_reviews_by_user(reviews, EmptyDict)
    IN  {latest[l] : l \in DOMAIN latest}

Client_is_approved_FirstWins(reviews) ==
    LET first == latest_reviews_by_user(
                     [i \in 1..Len(reviews) |-> reviews[Len(reviews) + 1 - i]],
                     EmptyDict)
        states == {first[l] : l \in DOMAIN first}
    IN  "APPROVED" \in states /\ "CHANGES_REQUESTED" \notin states
Client_is_approved(reviews) ==
    /\ "APPROVED" \in review_states(reviews)
    /\ "CHANGES_REQUESTED" \notin review_states(reviews)

Service_is_approved_ApprovalSticks(reviews) ==
    /\ \E i \in 1..Len(reviews) : reviews[i].state = "APPROVED"
    /\ "CHANGES_REQUESTED" \notin review_states(reviews)
Service_is_approved(reviews) ==
    /\ "APPROVED" \in review_states(reviews)
    /\ "CHANGES_REQUESTED" \notin review_states(reviews)

\* str.lower() on the base refs of the model.
lower_Identity(s) == s
lower(s) ==
    CASE s = "Main" -> "main"
      [] s = "LEADER" -> "leader"
      [] s = "Develop" -> "develop"
      [] s = "MASTER" -> "master"
      [] s = "Feature/X" -> "feature/x"
      [] OTHER -> s

LeaderBranches == {"leader", "main", "master", "develop"}

BigThreshold == 15

\* details.get('changed_files', 0) > 15: a null changed_files is compared
\* with 15 and raises TypeError.
Client_is_big(details) ==
    LET cf == IF "changed_files" \in DOMAIN details
              THEN details.changed_files ELSE JNum(0)
    IN  IF cf = JNull THEN Raised ELSE Value(cf.v > BigThreshold)

\* (details.get('changed_files', 0) or 0) > 15
Service_is_big(details) ==
    LET cf == IF "changed_files" \in DOMAIN details
              THEN details.changed_files ELSE JNum(0)
    IN  IF cf = JNull THEN Value(FALSE) ELSE Value(cf.v > BigThreshold)

\* details.get('mergeable') is True
is_ready_to_merge(details) ==
    "mergeable" \in DOMAIN details /\ details.mergeable = "true"

\* details['base']['ref'].lower() in [...]: KeyError without base or ref.
is_leader_branch(details) ==
    IF "base" \in DOMAIN details /\ "ref" \in DOMAIN details.base
    THEN Value(lower(details.base.ref) \in LeaderBranches)
    ELSE Raised

\* The dict literal returned by enrich_pr.
Client_record(details, reviews, check_results) ==
    LET big == Client_is_big(details)
        leader == is_leader_branch(details)
    IN  IF big.raised \/ leader.raised THEN Raised
        ELSE Value(Merge(details,
                 [testStatus |-> Client_test_status(check_results),
                  checkResults |-> check_results,
                  isApproved |-> Client_is_approved(reviews),
                  isBig |-> big.value,
                  isReadyToMerge |-> is_ready_to_merge(details),
                  isLeaderBranch |-> leader.value]))

\* The dict literal appended by GithubService.fetch_enriched_pull_requests.
Service_record(details, reviews, check_results) ==
    LET big == Service_is_big(details)
        leader == is_leader_branch(details)
    IN  IF big.raised \/ leader.raised THEN Raised
        ELSE Value(Merge(details,
                 [testStatus |-> Service_test_status(check_results),
                  checkResults |-> check_results,
                  isApproved |-> Service_is_approved(reviews),
                  isBig |-> big.value,
                  isReadyToMerge |-> is_ready_to_merge(details),
                  isLeaderBranch |-> leader.value]))

\* Dict objects live in a heap, a function from references to dicts; an
\* operation gives the heap after it and the reference it yields.
\* src.copy(): a new object with the members of src.
dict_copy_Alias(heap, src, new) == [heap |-> heap, ref |-> src]
dict_copy(heap, src, new) ==
    [heap |-> Merge(heap, [id \in {new} |-> heap[src]]), ref |-> new]

\* ref.update(members): the object itself changes.
dict_update(heap, ref, members) ==
    [heap |-> [heap EXCEPT ![ref] = Merge(heap[ref], members)], ref |-> ref]

\* {**src, members...}: a new object.
dict_display(heap, src, members, new) ==
    [heap |-> Merge(heap, [id \in {new} |-> Merge(src, members)]), ref |-> new]

\* The heap in which one pull request is enriched: the entry of the list.
HeapOf(pr) == [id \in {"pr"} |-> pr]

\* pr_copy = pr.copy(); pr_copy.update({...}) -- no 'checkResults' member.
Client_except(pr) ==
    LET c == dict_copy(HeapOf(pr), "pr", "pr_copy")
    IN  dict_update(c.heap, c.ref,
            [testStatus |-> "unknown", isApproved |-> FALSE, isBig |-> FALSE,
             isReadyToMerge |-> FALSE, isLeaderBranch |-> FALSE])

Client_fallback(pr) == LET e == Client_except(pr) IN e.heap[e.ref]

\* {**pr, 'testStatus': 'unknown', 'checkResults': [], ...}
Service_except(pr) ==
    dict_display(HeapOf(pr), pr,
        [testStatus |-> "unknown", checkResults |-> << >>,
         isApproved |-> FALSE, isBig |-> FALSE,
         isReadyToMerge |-> FALSE, isLeaderBranch |-> FALSE], "record")

Service_fallback(pr) == LET e == Service_except(pr) IN e.heap[e.ref]

\* What one enrichment yields: the record, the entry of the list as it is
\* afterwards, and whether the record is another object than the entry.
Enriched(e) ==
    [raised |-> FALSE, value |-> e.heap[e.ref], pr_after |-> e.heap["pr"],
     is_new |-> e.ref # "pr"]

\* enrich_pr from the three futures' results to its return: d, r and c are
\* the outcomes of the details, reviews and check-runs requests. The except
\* clause turns every exception of the try block into the fallback record.
Client_enrich_pr_NoCatch(pr, d, r, c) ==
    LET checks == Client_fetch_check_runs(c) IN
    IF d.raised \/ r.raised \/ checks.raised THEN Raised
    ELSE LET rec == Client_record(d.value, r.value, checks.value) IN
         IF rec.raised THEN Raised
         ELSE Enriched(dict_display(HeapOf(pr), rec.value, EmptyDict, "record"))
Client_enrich_pr_SharedReviewDict(pr, d, r, c) ==
    LET checks == Client_fetch_check_runs(c)
        leaked == IF produced = {} THEN << >>
                  ELSE UpstreamReviews(
                           subset(prs)[CHOOSE i \in produced : TRUE].number)
    IN
    IF d.raised \/ r.raised \/ checks.raised THEN Enriched(Client_except(pr))
    ELSE LET rec == Client_record(d.value, leaked \o r.value, checks.value) IN
         IF rec.raised THEN Enriched(Client_except(pr))
         ELSE Enriched(dict_display(HeapOf(pr), rec.value, EmptyDict, "record"))
Client_enrich_pr(pr, d, r, c) ==
    LET checks == Client_fetch_check_runs(c) IN
    IF d.raised \/ r.raised \/ checks.raised THEN Enriched(Client_except(pr))
    ELSE LET rec == Client_record(d.value, r.value, checks.value) IN
         IF rec.raised THEN Enriched(Client_except(pr))
         ELSE Enriched(dict_display(HeapOf(pr), rec.value, EmptyDict, "record"))

\* One iteration of the for loop of GithubService.fetch_enriched_pull_requests.
Service_enrich_pr(pr, d, r, c) ==
    LET checks == Service_fetch_check_runs(c) IN
    IF d.raised \/ r.raised \/ checks.raised THEN Enriched(Service_except(pr))
    ELSE LET rec == Service_record(d.value, r.value, checks.value) IN
         IF rec.raised THEN Enriched(Service_except(pr))
         ELSE Enriched(dict_display(HeapOf(pr), rec.value, EmptyDict, "record"))

(***************************************************************************)
(* The enrichment as a state machine.                                      *)
(***************************************************************************)
Idle == [st |-> "idle", retries |-> 0]
Running(r) == [st |-> "running", retries |-> r]
Ok == [st |-> "ok", retries |-> 0]
Failed == [st |-> "failed", retries |-> 0]

Finished(f) == f.st \in {"ok", "failed"}

\* The outcome of a finished request for endpoint ep of pull request n.
Outcome(f, ep, n) ==
    IF f.st = "failed" THEN Raised
    ELSE Value(CASE ep = "details" -> UpstreamDetails(n)
                 [] ep = "reviews" -> UpstreamReviews(n)
                 [] OTHER -> UpstreamCheckRuns(n))

Positions == 1..Len(subset(prs))

InitEnrichIdle ==
    /\ phase = "idle"
    /\ prs = << >>
    /\ fetches = << >>
    /\ produced = {}
    /\ results = << >>
    /\ shared = {}

InitRequestIdle ==
    /\ method = "GET"
    /\ is_text = FALSE
    /\ pc = "idle"
    /\ retries = 0
    /\ attempts = 0
    /\ outcomes = << >>
    /\ sleeps = << >>
    /\ lastResp = NoResponse
    /\ parsed = FALSE
    /\ excs = << >>
    /\ result = NoResult
    /\ error = NoExc
    /\ applied = 0

InitEnrich ==
    /\ impl \in {"client", "service"}
    /\ InitRequestIdle
    /\ phase = "list"
    /\ prs = << >>
    /\ fetches = << >>
    /\ produced = {}
    /\ results = << >>
    /\ shared = {}

\* prs = self.fetch_pull_requests(state='open'): the list, or the call raises.
\* GitHubClient then submits every enrich_pr, which submits its three fetches.
FetchPullRequests ==
    /\ phase = "list"
    /\ \/ /\ phase' = "raised"
          /\ UNCHANGED <<prs, fetches>>
       \/ \E n \in 0..(IF impl = "client" THEN MaxClientPRs ELSE MaxPRs) :
          /\ prs' = [i \in 1..n |-> ListEntry(i)]
          /\ fetches' = [i \in 1..n |-> [ep \in Endpoints |->
                            IF impl = "client" THEN Running(RetryBudget) ELSE Idle]]
          /\ phase' = "enrich"
    /\ UNCHANGED <<produced, results, shared>>
    /\ UNCHANGED <<reqVars, derVars, auxVars>>

\* The _request call behind one of the three futures of enrich_pr, from its
\* first attempt to its end: it returns, or it raises once its retries are
\* used up (attempt by attempt: ClientFetchAttempt).
ClientFetch(i, ep) ==
    /\ impl = "client"
    /\ phase = "enrich"
    /\ fetches[i][ep].st = "running"
    /\ \E success \in BOOLEAN :
        fetches' = [fetches EXCEPT ![i][ep] = IF success THEN Ok ELSE Failed]
    /\ UNCHANGED <<phase, prs, produced, results, shared>>
    /\ UNCHANGED <<reqVars, derVars, auxVars>>

\* One attempt of the _request behind one of the three futures of enrich_pr,
\* with the handler of its failure (decrement and sleep, or raise); the call
\* of requests.request is counted.
ClientFetchAttempt(i, ep) ==
    /\ impl = "client"
    /\ phase = "enrich"
    /\ fetches[i][ep].st = "running"
    /\ \E success \in BOOLEAN :
        LET f == fetches[i][ep]
            g == IF success THEN Ok
                 ELSE IF Exhausted(f.retries) THEN Failed
                 ELSE Running(f.retries - 1)
        IN  fetches' = [fetches EXCEPT ![i][ep] = g]
    /\ fan' = [fan EXCEPT !.sent[i][ep] = @ + 1]
    /\ UNCHANGED <<phase, prs, produced, results, shared>>
    /\ UNCHANGED <<reqVars, derVars>>
    /\ UNCHANGED <<cap, ctx, cli, jules, stats, hdr>>

\* The inner with block of enrich_pr is left, after the three result() calls
\* or by the exception of one of them, through the executor's __exit__, which
\* is shutdown(wait=True): it returns once the three futures are done.
join_barrier_NoWait(f) ==
    /\ Finished(f["details"])
    /\ \/ f["details"].st = "failed"
       \/ /\ Finished(f["reviews"])
          /\ f["reviews"].st = "failed" \/ Finished(f["checks"])
join_barrier(f) == \A ep \in Endpoints : Finished(f[ep])

\* concurrent.futures.as_completed(future_results): the futures it can yield
\* next are those that are done and that it has not yielded yet.
as_completed_Repeat(done, yielded) == done
as_completed(done, yielded) == done \ yielded

\* enrich_pr leaves the inner with block (all three futures are done), builds
\* its record and returns; as_completed hands the record to results.append
\* (future.result() would re-raise an exception that left enrich_pr).
ClientEnrichDone(i) ==
    /\ impl = "client"
    /\ phase = "enrich"
    /\ i \in as_completed({j \in Positions : join_barrier(fetches[j])}, produced)
    /\ LET pr == subset(prs)[i]
           out(ep) == Outcome(fetches[i][ep], ep, pr.number)
           e == Client_enrich_pr(pr, out("details"), out("reviews"), out("checks"))
       IN  IF e.raised
           THEN /\ phase' = "raised"
                /\ UNCHANGED <<results, produced, prs, shared>>
           ELSE /\ results' = Append(results, e.value)
                /\ produced' = produced \cup {i}
                /\ prs' = [prs EXCEPT ![i] = e.pr_after]
                /\ shared' = IF e.is_new THEN shared ELSE shared \cup {i}
                /\ UNCHANGED phase
    /\ UNCHANGED fetches
    /\ UNCHANGED <<reqVars, derVars, auxVars>>

\* One iteration of the for loop of GithubService.fetch_enriched_pull_requests:
\* details, then reviews, then check-runs, each one request; the first that
\* raises ends the try block.
ServiceEnrichOne ==
    /\ impl = "service"
    /\ phase = "enrich"
    /\ Len(results) < Len(subset(prs))
    /\ LET i == Len(results) + 1
           pr == subset(prs)[i]
       IN  \E d_ok, r_ok, c_ok \in BOOLEAN :
           LET fd == IF d_ok THEN Ok ELSE Failed
               fr == IF ~d_ok THEN Idle ELSE IF r_ok THEN Ok ELSE Failed
               fc == IF ~d_ok \/ ~r_ok THEN Idle ELSE IF c_ok THEN Ok ELSE Failed
               od == Outcome(fd, "details", pr.number)
               or == IF fr = Idle THEN Raised ELSE Outcome(fr, "reviews", pr.number)
               oc == IF fc = Idle THEN Raised ELSE Outcome(fc, "checks", pr.number)
           IN  /\ fetches' = [fetches EXCEPT ![i] =
                       [ep \in Endpoints |-> CASE ep = "details" -> fd
                                               [] ep = "reviews" -> fr
                                               [] OTHER -> fc]]
               /\ LET e == Service_enrich_pr(pr, od, or, oc) IN
                  IF e.raised
                  THEN /\ phase' = "raised"
                       /\ UNCHANGED <<results, produced, prs, shared>>
                  ELSE /\ results' = Append(results, e.value)
                       /\ produced' = produced \cup {i}
                       /\ prs' = [prs EXCEPT ![i] = e.pr_after]
                       /\ shared' = IF e.is_new THEN shared ELSE shared \cup {i}
                       /\ UNCHANGED phase
    /\ UNCHANGED <<reqVars, derVars, auxVars>>

\* return results
ReturnResults ==
    /\ phase = "enrich"
    /\ produced = Positions
    /\ phase' = "done"
    /\ UNCHANGED <<prs, fetches, produced, results, shared>>
    /\ UNCHANGED <<reqVars, derVars, auxVars>>

(***************************************************************************)
(* The derivation rules, each applied to an input drawn from a bounded set. *)
(***************************************************************************)
MaxChecks == 3
MaxReviews == 3

RunStatuses == {"completed", "in_progress", "queued"}
RunConclusions == {"success", "failure", "timed_out", "null"}
Logins == {"A", "B"}
ReviewStates == {"APPROVED", "CHANGES_REQUESTED", "COMMENTED", "DISMISSED"}

SeqsUpTo(S, n) == UNION {[1..k -> S] : k \in 0..n}

CheckResultLists ==
    SeqsUpTo({CheckResult(Run("ci", st, c)) : st \in RunStatuses, c \in RunConclusions},
             MaxChecks)
ReviewLists ==
    SeqsUpTo({Review(l, st) : l \in Logins, st \in ReviewStates}, MaxReviews)

\* The pull-request details the provider can send: a base ref, and a
\* changed_files member that is absent, null or a number.
Refs == {"Main", "LEADER", "develop", "feature/x", "master", "MASTER",
         "Develop", "main", "leader", "mainline", "Feature/X"}
JAbsent == [json |-> "absent"]
ChangedFiles == {JAbsent, JNull, JNum(0), JNum(15), JNum(16), JNum(20)}

DetailsOf(ref, cf) ==
    LET d == Merge(ListEntry(1), [base |-> [ref |-> ref], mergeable |-> "true"])
    IN  IF cf = JAbsent THEN d ELSE Merge(d, [changed_files |-> cf])

\* The three responses of one pull request: any details, with approved
\* reviews and one passed check-run.
PullRequestResponses ==
    {[details |-> DetailsOf(ref, cf),
      reviews |-> <<Review("A", "APPROVED")>>,
      check_runs |-> [check_runs |-> <<Run("build", "completed", "success")>>]] :
        ref \in Refs, cf \in ChangedFiles}

NotDerived == [derived |-> FALSE]
Derived(v) == [derived |-> TRUE, value |-> v]

InitDeriveIdle ==
    /\ d_kind = "idle"
    /\ d_in = << >>
    /\ d_out = NotDerived

InitDerive ==
    /\ impl \in {"client", "service"}
    /\ InitRequestIdle
    /\ InitEnrichIdle
    /\ d_kind \in {"checks", "reviews", "details"}
    /\ d_in \in (CASE d_kind = "checks" -> CheckResultLists
                  [] d_kind = "reviews" -> ReviewLists
                  [] OTHER -> PullRequestResponses)
    /\ d_out = NotDerived

\* test_status from check_results, as enrich_pr and the loop of GithubService do.
DeriveTestStatus ==
    /\ d_kind = "checks"
    /\ d_out = NotDerived
    /\ d_out' = Derived(IF impl = "client" THEN Client_test_status(d_in)
                        ELSE Service_test_status(d_in))
    /\ UNCHANGED <<d_kind, d_in>>
    /\ UNCHANGED <<reqVars, enrVars, auxVars>>

\* is_approved from reviews.
DeriveIsApproved ==
    /\ d_kind = "reviews"
    /\ d_out = NotDerived
    /\ d_out' = Derived(IF impl = "client" THEN Client_is_approved(d_in)
                        ELSE Service_is_approved(d_in))
    /\ UNCHANGED <<d_kind, d_in>>
    /\ UNCHANGED <<reqVars, enrVars, auxVars>>

\* The record of one pull request from its three responses: enrich_pr, or one
\* iteration of the loop of GithubService, with no request raising.
DeriveRecord ==
    /\ d_kind = "details"
    /\ d_out = NotDerived
    /\ LET pr == ListEntry(1)
           e == IF impl = "client"
                THEN Client_enrich_pr(pr, Value(d_in.details), Value(d_in.reviews),
                                      Value(d_in.check_runs))
                ELSE Service_enrich_pr(pr, Value(d_in.details), Value(d_in.reviews),
                                       Value(d_in.check_runs))
       IN  d_out' = Derived(e.value)
    /\ UNCHANGED <<d_kind, d_in>>
    /\ UNCHANGED <<reqVars, enrVars, auxVars>>

(***************************************************************************)
(* fetch_enriched_pull_requests on long lists: the fan-out counted.        *)
(* Every enrich_pr, and every iteration of the loop of GithubService,      *)
(* issues the three fetches of its pull request and yields one record      *)
(* (full or fallback); here only their numbers are kept.                   *)
(***************************************************************************)
MaxListLen == 52

\* The lengths of the list fetch_pull_requests returns.
ListLens == {0, 1, EnrichCap - 1, EnrichCap, EnrichCap + 1, MaxListLen}

CapIdle == [pc |-> "idle"]

InitCap ==
    cap = [pc |-> "list", listed |-> << >>, submitted |-> 0, ran |-> 0,
           issued |-> {}, collected |-> 0]

\* prs = self.fetch_pull_requests(...): a list of any length, or the call raises.
CapFetchPullRequests ==
    /\ cap.pc = "list"
    /\ \/ cap' = [cap EXCEPT !.pc = "raised"]
       \/ \E n \in ListLens :
            cap' = [cap EXCEPT !.listed = [i \in 1..n |-> ListEntry(i)],
                               !.pc = IF impl = "client" THEN "submit" ELSE "loop"]
    /\ UNCHANGED <<reqVars, enrVars, derVars>>
    /\ UNCHANGED <<ctx, cli, jules, stats, fan, hdr>>

\* One executor.submit(enrich_pr, pr) of the list comprehension over subset.
CapSubmit ==
    /\ impl = "client"
    /\ cap.pc = "submit"
    /\ cap.submitted < Len(subset(cap.listed))
    /\ cap' = [cap EXCEPT !.submitted = @ + 1]
    /\ UNCHANGED <<reqVars, enrVars, derVars>>
    /\ UNCHANGED <<ctx, cli, jules, stats, fan, hdr>>

\* The pool runs the submitted enrich_pr calls in submission order; one of
\* them submits the three fetches of its pull request and returns its record.
CapRunEnrich ==
    /\ impl = "client"
    /\ cap.pc = "submit"
    /\ cap.ran < cap.submitted
    /\ cap' = [cap EXCEPT !.ran = @ + 1,
                          !.issued = @ \cup {subset(cap.listed)[cap.ran + 1].number}]
    /\ UNCHANGED <<reqVars, enrVars, derVars>>
    /\ UNCHANGED <<ctx, cli, jules, stats, fan, hdr>>

\* for future in as_completed(future_results): results.append(future.result()),
\* reached once the list comprehension has submitted every pr of subset.
CapCollect ==
    /\ impl = "client"
    /\ cap.pc = "submit"
    /\ cap.submitted = Len(subset(cap.listed))
    /\ cap.collected < cap.ran
    /\ cap' = [cap EXCEPT !.collected = @ + 1]
    /\ UNCHANGED <<reqVars, enrVars, derVars>>
    /\ UNCHANGED <<ctx, cli, jules, stats, fan, hdr>>

\* One iteration of for pr in subset of GithubService: the three fetches of
\* pr, then results.append in the try block or in its except clause.
CapServiceIteration ==
    /\ impl = "service"
    /\ cap.pc = "loop"
    /\ cap.collected < Len(subset(cap.listed))
    /\ cap' = [cap EXCEPT !.ran = @ + 1,
                          !.issued = @ \cup {subset(cap.listed)[cap.ran + 1].number},
                          !.collected = @ + 1]
    /\ UNCHANGED <<reqVars, enrVars, derVars>>
    /\ UNCHANGED <<ctx, cli, jules, stats, fan, hdr>>

\* return results
CapReturn ==
    /\ cap.pc \in {"submit", "loop"}
    /\ cap.pc = "submit" => cap.submitted = Len(subset(cap.listed))
    /\ cap.collected = Len(subset(cap.listed))
    /\ cap' = [cap EXCEPT !.pc = "done"]
    /\ UNCHANGED <<reqVars, enrVars, derVars>>
    /\ UNCHANGED <<ctx, cli, jules, stats, fan, hdr>>

(***************************************************************************)
(* fetch_core_repo_context of both classes, with fetch_repo_content.       *)
(***************************************************************************)
SnippetLen == 1500
MaxFileLen == 1600

\* Python values.
PyNone == [py |-> "None"]
PyStr(chars) == [py |-> "str", chars |-> chars]
PyList(items) == [py |-> "list", items |-> items]
PyDict(fields) == [py |-> "dict", fields |-> fields]

\* bool(v) is False
Falsy(v) ==
    CASE v.py = "None" -> TRUE
      [] v.py = "str" -> Len(v.chars) = 0
      [] v.py = "list" -> Len(v.items) = 0
      [] OTHER -> DOMAIN v.fields = {}

\* The files of the provider: ASCII text of a given length, byte by byte.
FileLens == {0, 2, SnippetLen, SnippetLen + 1, MaxFileLen}
FileBytes(len) == [i \in 1..len |-> 32 + ((7 * i) % 95)]
\* A file that is not UTF-8: 0xFF occurs in no UTF-8 sequence.
BadBytes == <<72, 255, 105>>

\* Base64 as the provider writes it: 3 bytes to 4 sextets, Pad for '='.
Pad == 64
B64Encode(bytes) ==
    LET n == Len(bytes)
        byte(i) == IF i <= n THEN bytes[i] ELSE 0
        sextet(j) ==
            LET q == (j - 1) \div 4
                k == (j - 1) % 4
                b0 == byte(3 * q + 1)
                b1 == byte(3 * q + 2)
                b2 == byte(3 * q + 3)
            IN  CASE k = 0 -> b0 \div 4
                  [] k = 1 -> (b0 % 4) * 16 + (b1 \div 16)
                  [] k = 2 -> IF 3 * q + 2 <= n THEN (b1 % 16) * 4 + (b2 \div 64)
                              ELSE Pad
                  [] OTHER -> IF 3 * q + 3 <= n THEN b2 % 64 ELSE Pad
    IN  [j \in 1..(4 * ((n + 2) \div 3)) |-> sextet(j)]

\* base64.b64decode: 4 sextets to 3 bytes, less the padding (the last one or
\* two sextets of well-formed base64); binascii.Error
\* when the length is not a multiple of 4.
b64decode(content) ==
    LET m == Len(content)
        pads == Cardinality({j \in {m - 1, m} : j >= 1 /\ content[j] = Pad})
        byte(i) ==
            LET q == (i - 1) \div 3
                k == (i - 1) % 3
                s0 == content[4 * q + 1]
                s1 == content[4 * q + 2]
                s2 == content[4 * q + 3]
                s3 == content[4 * q + 4]
            IN  CASE k = 0 -> s0 * 4 + (s1 \div 16)
                  [] k = 1 -> (s1 % 16) * 16 + (s2 \div 4)
                  [] OTHER -> (s2 % 4) * 64 + s3
    IN  IF m % 4 # 0 THEN Raised
        ELSE Value([i \in 1..(3 * (m \div 4) - pads) |-> byte(i)])

\* bytes.decode('utf-8') on the bytes of the model: an ASCII byte is the
\* character of that code, 0xFF raises UnicodeDecodeError.
decode_utf8(bytes) ==
    IF \A i \in 1..Len(bytes) : bytes[i] < 128
    THEN Value(PyStr([i \in 1..Len(bytes) |-> bytes[i]]))
    ELSE Raised

\* What the contents request of a file path can give.
ContentOutcomes ==
    {[kind |-> k, len |-> 0] : k \in {"raised", "not_base64", "not_utf8", "directory"}}
        \cup {[kind |-> "file", len |-> n] : n \in FileLens}

\* What the contents request of a directory path can give.
ListingOutcomes ==
    {[kind |-> k, len |-> 0] : k \in {"raised", "file"}}
        \cup {[kind |-> "directory", len |-> n] : n \in {0, 2}}

Listing(n) == [i \in 1..n |-> [path |-> IF i = 1 THEN "README.md" ELSE "src",
                               type |-> IF i = 1 THEN "file" ELSE "dir"]]

\* self._request('GET', .../contents/<path>) for each outcome.
ContentRequest(o) ==
    CASE o.kind = "raised" -> Raised
      [] o.kind = "file" ->
            Value(PyDict([content |-> B64Encode(FileBytes(o.len)),
                          encoding |-> "base64"]))
      [] o.kind = "not_base64" ->
            Value(PyDict([content |-> << >>, encoding |-> "none"]))
      [] o.kind = "not_utf8" ->
            Value(PyDict([content |-> B64Encode(BadBytes), encoding |-> "base64"]))
      [] OTHER -> Value(PyList(Listing(2)))

ListingRequest(o) ==
    CASE o.kind = "raised" -> Raised
      [] o.kind = "directory" -> Value(PyList(Listing(o.len)))
      [] OTHER -> Value(PyDict([content |-> B64Encode(FileBytes(2)),
                                encoding |-> "base64"]))

\* base64.b64decode(data['content']).decode('utf-8'), inside the try block.
DecodeContent(data) ==
    LET b == b64decode(data.fields.content) IN
    IF b.raised THEN PyNone
    ELSE LET t == decode_utf8(b.value) IN
         IF t.raised THEN PyNone ELSE t.value

\* GitHubClient.fetch_repo_content
Client_fetch_repo_content(request) ==
    IF request.raised THEN PyNone
    ELSE LET data == request.value IN
         IF /\ data.py = "dict"
            /\ "content" \in DOMAIN data.fields
            /\ "encoding" \in DOMAIN data.fields
            /\ data.fields.encoding = "base64"
         THEN DecodeContent(data)
         ELSE data

\* GithubService.fetch_repo_content: data.get('content') must be truthy.
Service_fetch_repo_content(request) ==
    IF request.raised THEN PyNone
    ELSE LET data == request.value IN
         IF /\ data.py # "list"
            /\ "content" \in DOMAIN data.fields
            /\ Len(data.fields.content) > 0
            /\ "encoding" \in DOMAIN data.fields
            /\ data.fields.encoding = "base64"
         THEN DecodeContent(data)
         ELSE data

\* x[:1500]
snippet_OffByOne(seq) == SubSeq(seq, 1, Min(Len(seq), SnippetLen + 1))
snippet(seq) == SubSeq(seq, 1, Min(Len(seq), SnippetLen))

\* ', '.join(items)
RECURSIVE join(_, _)
join(sep, items) ==
    IF Len(items) = 0 THEN ""
    ELSE IF Len(items) = 1 THEN Head(items)
    ELSE Head(items) \o sep \o join(sep, Tail(items))

\* ', '.join([f['path'] for f in root]): KeyError on an entry without path.
joined_paths(root) ==
    IF \A i \in 1..Len(root.items) : "path" \in DOMAIN root.items[i]
    THEN Value(join(", ", [i \in 1..Len(root.items) |-> root.items[i].path]))
    ELSE Raised

\* GitHubClient.fetch_core_repo_context: root = [] when the future raised,
\* and the join is evaluated in the return statement, outside every try.
Client_file_list(request) ==
    LET root == IF request.raised THEN PyList(<< >>) ELSE request.value
    IN  IF root.py = "list" THEN joined_paths(root) ELSE Value("unknown")

\* readme = future.result(); "" unless a str; then readme[:1500].
Client_text(request) ==
    LET got == Client_fetch_repo_content(request)
        text == IF got.py = "str" THEN got ELSE PyStr(<< >>)
    IN  Value(PyStr(snippet(text.chars)))

Client_has_ci(request) ==
    LET ci == IF request.raised THEN PyList(<< >>) ELSE request.value
    IN  ci.py = "list" /\ Len(ci.items) > 0

\* GithubService.fetch_core_repo_context: request and join in one try block.
Service_file_list(request) ==
    IF request.raised THEN Value("unknown")
    ELSE IF request.value.py = "list"
    THEN LET j == joined_paths(request.value) IN
         IF j.raised THEN Value("unknown") ELSE j
    ELSE Value("unknown")

\* readme = self.fetch_repo_content(...) or ""; readme[:1500] if readme else "":
\* the slice of a str or of a list; a dict cannot be sliced.
Service_text(request) ==
    LET got == Service_fetch_repo_content(request)
        readme == IF Falsy(got) THEN PyStr(<< >>) ELSE got
    IN  IF Falsy(readme) THEN Value(PyStr(<< >>))
        ELSE CASE readme.py = "str" -> Value(PyStr(snippet(readme.chars)))
               [] readme.py = "list" -> Value(PyList(snippet(readme.items)))
               [] OTHER -> Raised

Service_has_ci(request) ==
    IF request.raised THEN FALSE
    ELSE request.value.py = "list" /\ Len(request.value.items) > 0

\* The dict returned, or the exception that leaves the call.
Client_context(root, readme, pkg, ci) ==
    LET fl == Client_file_list(root)
        rs == Client_text(readme)
        pj == Client_text(pkg)
    IN  IF fl.raised \/ rs.raised \/ pj.raised THEN Raised
        ELSE Value([fileList |-> fl.value, readmeSnippet |-> rs.value,
                    packageJson |-> pj.value, hasCI |-> Client_has_ci(ci)])

Service_context(root, readme, pkg, ci) ==
    LET fl == Service_file_list(root)
        rs == Service_text(readme)
        pj == Service_text(pkg)
    IN  IF fl.raised \/ rs.raised \/ pj.raised THEN Raised
        ELSE Value([fileList |-> fl.value, readmeSnippet |-> rs.value,
                    packageJson |-> pj.value, hasCI |-> Service_has_ci(ci)])

\* The four fetches, in the order GithubService makes them.
CtxFetches == <<"root", "readme", "pkg", "ci">>
NotFetched == [kind |-> "pending", len |-> 0]

InitContext ==
    ctx = [pc |-> "fetch",
           out |-> [f \in {CtxFetches[k] : k \in 1..4} |-> NotFetched],
           result |-> NoResult]

\* One of the four requests completes. GitHubClient runs them on a pool, in
\* any order; GithubService makes them one after the other.
CtxFetch(k) ==
    /\ ctx.pc = "fetch"
    /\ ctx.out[CtxFetches[k]] = NotFetched
    /\ impl = "service" => \A j \in 1..(k - 1) : ctx.out[CtxFetches[j]] # NotFetched
    /\ \E o \in (IF CtxFetches[k] \in {"readme", "pkg"} THEN ContentOutcomes
                 ELSE ListingOutcomes) :
        ctx' = [ctx EXCEPT !.out[CtxFetches[k]] = o]
    /\ UNCHANGED <<reqVars, enrVars, derVars>>
    /\ UNCHANGED <<cap, cli, jules, stats, fan, hdr>>

\* The results are gathered and the dict is built and returned.
CtxReturn ==
    /\ ctx.pc = "fetch"
    /\ \A k \in 1..4 : ctx.out[CtxFetches[k]] # NotFetched
    /\ LET root == ListingRequest(ctx.out["root"])
           readme == ContentRequest(ctx.out["readme"])
           pkg == ContentRequest(ctx.out["pkg"])
           ci == ListingRequest(ctx.out["ci"])
           r == IF impl = "client" THEN Client_context(root, readme, pkg, ci)
                ELSE Service_context(root, readme, pkg, ci)
       IN  ctx' = IF r.raised THEN [ctx EXCEPT !.pc = "raised"]
                  ELSE [ctx EXCEPT !.pc = "done", !.result = r.value]
    /\ UNCHANGED <<reqVars, enrVars, derVars>>
    /\ UNCHANGED <<cap, cli, jules, stats, fan, hdr>>

(***************************************************************************)
(* main() of python/main.py, from parse_args to its return.                *)
(***************************************************************************)
\* The subcommands; "none" is a command line without one.
Commands == {"briefing", "audit-workflows", "audit-workflows --run-id",
             "audit-backlog", "pr-health", "tech-audit", "jules-cleanup", "none"}

\* An environment variable is absent (os.environ.get gives None), empty or set.
EnvValues == {"absent", "empty", "set"}
Environments ==
    [GITHUB_TOKEN : EnvValues, GEMINI_API_KEY : EnvValues, JULES_API_KEY : EnvValues]

\* bool(os.environ.get(name))
IsSet(v) == v = "set"

\* The two tests after the environment is read: the line printed before the
\* return, or "none" when main goes on.
credential_error_GithubOnly(env) ==
    IF ~IsSet(env.GITHUB_TOKEN)
    THEN "Error: GITHUB_TOKEN environment variable not set."
    ELSE "none"
credential_error(env) ==
    IF ~IsSet(env.GITHUB_TOKEN)
    THEN "Error: GITHUB_TOKEN environment variable not set."
    ELSE IF ~IsSet(env.GEMINI_API_KEY)
    THEN "Error: GEMINI_API_KEY environment variable not set."
    ELSE "none"

\* jules_key = os.environ.get("JULES_API_KEY") or gemini_key
jules_key_NoFallback(env) == env.JULES_API_KEY
jules_key(env) == IF IsSet(env.JULES_API_KEY) THEN "set" ELSE env.GEMINI_API_KEY

\* The calls of service methods each branch of main makes, in order.
ServiceCalls_CleanupDeletes(command) ==
    CASE command = "briefing" ->
            <<"fetch_repo_stats", "fetch_issues", "fetch_pull_requests",
              "get_velocity", "generate_repo_briefing">>
      [] command = "audit-workflows" ->
            <<"fetch_workflows_content", "fetch_workflow_runs",
              "fetch_core_repo_context", "analyze_workflow_qualitative">>
      [] command = "audit-workflows --run-id" ->
            <<"fetch_workflow_runs", "fetch_workflow_run_jobs",
              "analyze_workflow_health">>
      [] command = "audit-backlog" ->
            <<"fetch_issues", "fetch_repo_templates", "analyze_backlog_maintenance">>
      [] command = "pr-health" -> <<"fetch_pull_requests", "analyze_pull_requests">>
      [] command = "tech-audit" -> <<"fetch_core_repo_context", "run_technical_audit">>
      [] command = "jules-cleanup" ->
            <<"list_sessions", "fetch_pull_requests", "fetch_issues",
              "analyze_jules_cleanup", "delete_session">>
      [] OTHER -> << >>
ServiceCalls(command) ==
    CASE command = "briefing" ->
            <<"fetch_repo_stats", "fetch_issues", "fetch_pull_requests",
              "get_velocity", "generate_repo_briefing">>
      [] command = "audit-workflows" ->
            <<"fetch_workflows_content", "fetch_workflow_runs",
              "fetch_core_repo_context", "analyze_workflow_qualitative">>
      [] command = "audit-workflows --run-id" ->
            <<"fetch_workflow_runs", "fetch_workflow_run_jobs",
              "analyze_workflow_health">>
      [] command = "audit-backlog" ->
            <<"fetch_issues", "fetch_repo_templates", "analyze_backlog_maintenance">>
      [] command = "pr-health" -> <<"fetch_pull_requests", "analyze_pull_requests">>
      [] command = "tech-audit" -> <<"fetch_core_repo_context", "run_technical_audit">>
      [] command = "jules-cleanup" ->
            <<"list_sessions", "fetch_pull_requests", "fetch_issues",
              "analyze_jules_cleanup">>
      [] OTHER -> << >>

\* The API a service method talks to: GithubService and JulesService send
\* HTTP requests through their _request; GeminiService uses the genai client.
JulesMethods == {"list_sources", "list_sessions", "get_session", "create_session",
                 "send_message", "delete_session"}
GeminiMethods == {"generate_repo_briefing", "analyze_workflow_health",
                  "analyze_workflow_qualitative", "analyze_backlog_maintenance",
                  "analyze_pull_requests", "run_technical_audit",
                  "analyze_jules_cleanup"}
api_of(call) ==
    CASE call \in JulesMethods -> "jules"
      [] call \in GeminiMethods -> "gemini"
      [] OTHER -> "github"

\* The method argument the service method passes to _request ('GET' unless given).
http_method(call) ==
    CASE call \in {"create_issue", "add_comment", "create_session", "send_message"}
            -> "POST"
      [] call = "update_issue" -> "PATCH"
      [] call = "delete_session" -> "DELETE"
      [] OTHER -> "GET"

\* The kind of HTTP request a call sends to the GitHub or the Jules API.
requests_of(call) ==
    IF api_of(call) = "gemini" THEN {}
    ELSE {[api |-> api_of(call), method |-> http_method(call)]}

InitCLI ==
    \E command \in Commands, env \in Environments :
        cli = [pc |-> "start", command |-> command, env |-> env,
               printed |-> << >>, constructed |-> {}, calls |-> << >>,
               sent |-> {}]

\* The environment is read and the two credentials are tested.
CliCheckCredentials ==
    /\ cli.pc = "start"
    /\ LET line == credential_error(cli.env) IN
       cli' = IF line # "none"
              THEN [cli EXCEPT !.pc = "returned", !.printed = Append(@, line)]
              ELSE [cli EXCEPT !.pc = "construct"]
    /\ UNCHANGED <<reqVars, enrVars, derVars>>
    /\ UNCHANGED <<cap, ctx, jules, stats, fan, hdr>>

\* github = GithubService(github_token); gemini = GeminiService(gemini_key),
\* whose constructor raises ValueError without a key.
CliConstruct ==
    /\ cli.pc = "construct"
    /\ cli' = IF IsSet(cli.env.GEMINI_API_KEY)
              THEN [cli EXCEPT !.pc = "dispatch",
                               !.constructed = {"GithubService", "GeminiService"}]
              ELSE [cli EXCEPT !.pc = "raised", !.constructed = {"GithubService"}]
    /\ UNCHANGED <<reqVars, enrVars, derVars>>
    /\ UNCHANGED <<cap, ctx, jules, stats, fan, hdr>>

\* The branch of the subcommand is entered: its first line is printed;
\* jules-cleanup tests jules_key and constructs JulesService; no subcommand
\* prints the help.
CliDispatch ==
    /\ cli.pc = "dispatch"
    /\ cli' =
        CASE cli.command = "none" ->
                [cli EXCEPT !.pc = "returned", !.printed = Append(@, "usage")]
          [] cli.command = "jules-cleanup" /\ ~IsSet(jules_key(cli.env)) ->
                [cli EXCEPT !.pc = "returned",
                    !.printed = Append(@, "Error: JULES_API_KEY environment variable not set.")]
          [] cli.command = "jules-cleanup" ->
                [cli EXCEPT !.pc = "run", !.constructed = @ \cup {"JulesService"},
                            !.printed = Append(@, "Analyzing Jules sessions")]
          [] OTHER ->
                [cli EXCEPT !.pc = "run", !.printed = Append(@, "progress")]
    /\ UNCHANGED <<reqVars, enrVars, derVars>>
    /\ UNCHANGED <<cap, ctx, jules, stats, fan, hdr>>

\* The next service call of the branch, with the requests it sends: it
\* returns, or its exception leaves main.
CliCall ==
    /\ cli.pc = "run"
    /\ Len(cli.calls) < Len(ServiceCalls(cli.command))
    /\ LET call == ServiceCalls(cli.command)[Len(cli.calls) + 1] IN
       \E success \in BOOLEAN :
          cli' = [cli EXCEPT !.calls = Append(@, call),
                             !.sent = @ \cup requests_of(call),
                             !.pc = IF success THEN "run" ELSE "raised"]
    /\ UNCHANGED <<reqVars, enrVars, derVars>>
    /\ UNCHANGED <<cap, ctx, jules, stats, fan, hdr>>

\* The result is printed and main returns.
CliPrintResult ==
    /\ cli.pc = "run"
    /\ Len(cli.calls) = Len(ServiceCalls(cli.command))
    /\ cli' = [cli EXCEPT !.pc = "returned", !.printed = Append(@, "result")]
    /\ UNCHANGED <<reqVars, enrVars, derVars>>
    /\ UNCHANGED <<cap, ctx, jules, stats, fan, hdr>>

(***************************************************************************)
(* JulesService.list_sessions.                                             *)
(***************************************************************************)
PageCap == 5
MaxPageSize == 2

\* The session at position k of page p of the server.
Session(p, k) == [name |-> "sessions/" \o ToString(p) \o "-" \o ToString(k),
                  state |-> "SUCCEEDED"]

NoMember == [json |-> "absent"]

\* The responses of the server to the request for page p: with or without a
\* 'sessions' member, with a nextPageToken that is absent, empty or a token.
PageResponses(p) ==
    [sessions : {NoMember} \cup {[json |-> "array", items |-> [k \in 1..n |-> Session(p, k)]] :
                                    n \in 0..MaxPageSize},
     nextPageToken : {NoMember, [json |-> "string", s |-> ""],
                      [json |-> "string", s |-> "token" \o ToString(p)]}]

\* query = f"?pageToken={next_token}" if next_token else ''
query(next_token) == IF next_token = "" THEN "" ELSE "?pageToken=" \o next_token

\* if 'sessions' in data: all_sessions.extend(data['sessions'])
extend(all_sessions, data) ==
    IF data.sessions = NoMember THEN all_sessions
    ELSE all_sessions \o data.sessions.items

\* data.get('nextPageToken'), with None and '' both written "".
next_page_token(data) ==
    IF data.nextPageToken = NoMember THEN "" ELSE data.nextPageToken.s

\* if not next_token or pages >= 5: break
should_break_CapOnly(next_token, pages) == pages >= PageCap
should_break(next_token, pages) == next_token = "" \/ pages >= PageCap

InitJules ==
    jules = [pc |-> "loop", all_sessions |-> << >>, next_token |-> "", pages |-> 0,
             requests |-> << >>, served |-> << >>, result |-> NoResult]

\* One pass of the while loop: the request (which may raise out of the call),
\* the extension of all_sessions, and the break with the return.
JulesPage ==
    /\ jules.pc = "loop"
    /\ LET sent == Append(jules.requests, query(jules.next_token)) IN
       \/ jules' = [jules EXCEPT !.pc = "raised", !.requests = sent]
       \/ \E data \in PageResponses(Len(jules.served) + 1) :
            LET all == extend(jules.all_sessions, data)
                token == next_page_token(data)
                n == jules.pages + 1
                stop == should_break(token, n)
            IN  jules' = [pc |-> IF stop THEN "done" ELSE "loop",
                          all_sessions |-> all,
                          next_token |-> token,
                          pages |-> n,
                          requests |-> sent,
                          served |-> Append(jules.served, data),
                          result |-> IF stop THEN Value(all) ELSE NoResult]
    /\ UNCHANGED <<reqVars, enrVars, derVars>>
    /\ UNCHANGED <<cap, ctx, cli, stats, fan, hdr>>

(***************************************************************************)
(* GithubService.fetch_repo_stats.                                         *)
(***************************************************************************)
\* The repository metadata the provider sends: the members the call reads.
MetadataResponses ==
    [open_issues_count : {0, 10, 250}, stargazers_count : {0, 100, 5000},
     forks_count : {0, 7, 20}, updated_at : {"2023-01-01"}]

\* The responses to the search for open pull requests: an object with or
\* without total_count, or a value that is no object.
SearchResponses ==
    {PyDict([total_count |-> n, items |-> << >>]) : n \in {0, 7}}
        \cup {PyDict([items |-> << >>]), PyList(<< >>)}

NotRequested == [raised |-> FALSE, value |-> PyNone]

\* try: search_data = self._request(...); search_data.get('total_count', 0)
\* except: 0 -- the request raising, or a value without .get, gives 0.
open_prs_count_NoCatch(search) ==
    IF search.raised THEN Raised
    ELSE IF search.value.py # "dict" THEN Raised
    ELSE IF "total_count" \in DOMAIN search.value.fields
    THEN Value(search.value.fields.total_count)
    ELSE Value(0)
open_prs_count(search) ==
    IF search.raised THEN Value(0)
    ELSE IF search.value.py # "dict" THEN Value(0)
    ELSE IF "total_count" \in DOMAIN search.value.fields
    THEN Value(search.value.fields.total_count)
    ELSE Value(0)

\* The dict returned.
repo_stats(data, open_prs) ==
    [openIssuesCount |-> data.open_issues_count,
     openPRsCount |-> open_prs,
     lastUpdated |-> data.updated_at,
     stars |-> data.stargazers_count,
     forks |-> data.forks_count]

InitStats ==
    stats = [pc |-> "metadata", data |-> NotRequested, search |-> NotRequested,
             result |-> NoResult]

\* data = self._request(f"/repos/{repo}"): its exception leaves the call.
StatsFetchMetadata ==
    /\ stats.pc = "metadata"
    /\ \/ stats' = [stats EXCEPT !.pc = "raised", !.data = Raised]
       \/ \E data \in MetadataResponses :
            stats' = [stats EXCEPT !.pc = "search", !.data = Value(data)]
    /\ UNCHANGED <<reqVars, enrVars, derVars>>
    /\ UNCHANGED <<cap, ctx, cli, jules, fan, hdr>>

\* The search request inside try/except, and the return.
StatsSearchAndReturn ==
    /\ stats.pc = "search"
    /\ \E search \in {Raised} \cup {Value(v) : v \in SearchResponses} :
        LET n == open_prs_count(search) IN
        stats' = IF n.raised
                 THEN [stats EXCEPT !.pc = "raised", !.search = search]
                 ELSE [stats EXCEPT !.pc = "done", !.search = search,
                           !.result = Value(repo_stats(stats.data.value, n.value))]
    /\ UNCHANGED <<reqVars, enrVars, derVars>>
    /\ UNCHANGED <<cap, ctx, cli, jules, fan, hdr>>

(***************************************************************************)
(* The fan-out of GitHubClient.fetch_enriched_pull_requests with every     *)
(* requests.request call of its fetches counted.                           *)
(***************************************************************************)
\* The list fetch_pull_requests returned: two pull requests.
FanList == <<ListEntry(1), ListEntry(2)>>

\* The state FetchPullRequests leaves for that list: the six fetches are
\* submitted, no request has been made.
InitFan ==
    /\ impl = "client"
    /\ phase = "enrich"
    /\ prs = FanList
    /\ fetches = [i \in 1..Len(FanList) |-> [ep \in Endpoints |-> Running(RetryBudget)]]
    /\ produced = {}
    /\ results = << >>
    /\ shared = {}
    /\ fan = [pc |-> "count",
              sent |-> [i \in 1..Len(FanList) |-> [ep \in Endpoints |-> 0]]]

(***************************************************************************)
(* The headers of GitHubClient._request: concurrent calls on one client,   *)
(* from the copy of self.headers to requests.request.                      *)
(***************************************************************************)
MaxRequests == 2

JsonAccept == "application/vnd.github.v3+json"
DiffAccept == "application/vnd.github.v3.diff"

\* self.headers as __init__ builds it.
DefaultHeaders ==
    ("Authorization" :> "token t") @@ ("Accept" :> JsonAccept)
        @@ ("Content-Type" :> "application/json")

\* kwargs: no 'headers' member, or a dict of extra headers (one that names a
\* header of its own, one that names Accept).
NoHeaders == [kw |-> "absent"]
ExtraHeaders(dict) == [kw |-> "headers", dict |-> dict]
Kwargs == {NoHeaders,
           ExtraHeaders("X-GitHub-Api-Version" :> "2022-11-28"),
           ExtraHeaders("Accept" :> "application/vnd.github.raw")}

NotSent == [sent |-> FALSE]
Sent(headers) == [sent |-> TRUE, headers |-> headers]

\* The name of the dict a call's copy() creates.
LocalRef(t) == "headers" \o ToString(t)

InitHeaders ==
    \E n \in 1..MaxRequests :
        \E texts \in [1..n -> BOOLEAN], kws \in [1..n -> Kwargs] :
            hdr = [heap |-> [id \in {"self.headers"} |-> DefaultHeaders],
                   calls |-> [t \in 1..n |->
                       [pc |-> "copy", is_text |-> texts[t], kwargs |-> kws[t],
                        headers |-> "unbound", request |-> NotSent]]]

\* headers = self.headers.copy()
HdrCopy(t) ==
    /\ hdr.calls[t].pc = "copy"
    /\ LET c == dict_copy(hdr.heap, "self.headers", LocalRef(t)) IN
       hdr' = [hdr EXCEPT !.heap = c.heap,
                          !.calls[t].headers = c.ref,
                          !.calls[t].pc = "accept"]
    /\ UNCHANGED <<reqVars, enrVars, derVars>>
    /\ UNCHANGED <<cap, ctx, cli, jules, stats, fan>>

\* if is_text: headers['Accept'] = 'application/vnd.github.v3.diff'
HdrAccept(t) ==
    /\ hdr.calls[t].pc = "accept"
    /\ LET call == hdr.calls[t]
           u == IF call.is_text
                THEN dict_update(hdr.heap, call.headers, "Accept" :> DiffAccept)
                ELSE [heap |-> hdr.heap, ref |-> call.headers]
       IN  hdr' = [hdr EXCEPT !.heap = u.heap, !.calls[t].pc = "kwargs"]
    /\ UNCHANGED <<reqVars, enrVars, derVars>>
    /\ UNCHANGED <<cap, ctx, cli, jules, stats, fan>>

\* if 'headers' in kwargs: headers.update(kwargs.pop('headers'))
HdrKwargs(t) ==
    /\ hdr.calls[t].pc = "kwargs"
    /\ LET call == hdr.calls[t]
           u == IF call.kwargs # NoHeaders
                THEN dict_update(hdr.heap, call.headers, call.kwargs.dict)
                ELSE [heap |-> hdr.heap, ref |-> call.headers]
       IN  hdr' = [hdr EXCEPT !.heap = u.heap, !.calls[t].pc = "send"]
    /\ UNCHANGED <<reqVars, enrVars, derVars>>
    /\ UNCHANGED <<cap, ctx, cli, jules, stats, fan>>

\* requests.request(method, url, headers=headers, **kwargs): every attempt of
\* the loop passes the same dict.
HdrSend(t) ==
    /\ hdr.calls[t].pc = "send"
    /\ hdr' = [hdr EXCEPT !.calls[t].request = Sent(hdr.heap[hdr.calls[t].headers]),
                          !.calls[t].pc = "done"]
    /\ UNCHANGED <<reqVars, enrVars, derVars>>
    /\ UNCHANGED <<cap, ctx, cli, jules, stats, fan>>

(***************************************************************************)
(* The calls that a specification does not model stay idle.                *)
(***************************************************************************)
CtxIdle == [pc |-> "idle"]
CliIdle == [pc |-> "idle"]
JulesIdle == [pc |-> "idle"]
StatsIdle == [pc |-> "idle"]
FanIdle == [pc |-> "idle"]
HdrIdle == [pc |-> "idle"]

(***************************************************************************)
(* Specifications.                                                         *)
(***************************************************************************)
\* One _request call of either class.
InitAuxIdle ==
    /\ cap = CapIdle
    /\ ctx = CtxIdle
    /\ cli = CliIdle
    /\ jules = JulesIdle
    /\ stats = StatsIdle
    /\ fan = FanIdle
    /\ hdr = HdrIdle

Init == InitRequest /\ InitEnrichIdle /\ InitDeriveIdle /\ InitAuxIdle

Next ==
    \/ ClientAttempt
    \/ ClientBackoff
    \/ ServiceRequest

Spec == Init /\ [][Next]_vars

\* One fetch_enriched_pull_requests call of either class.
InitE == InitEnrich /\ InitDeriveIdle /\ InitAuxIdle

NextE ==
    \/ FetchPullRequests
    \/ \E i \in Positions, ep \in Endpoints : ClientFetch(i, ep)
    \/ \E i \in Positions : ClientEnrichDone(i)
    \/ ServiceEnrichOne
    \/ ReturnResults

SpecEnrich == InitE /\ [][NextE]_vars

\* One evaluation of a derivation rule.
NextD ==
    \/ DeriveTestStatus
    \/ DeriveIsApproved
    \/ DeriveRecord

InitD == InitDerive /\ InitAuxIdle

SpecDerive == InitD /\ [][NextD]_vars

\* The fan-out of GitHubClient on two pull requests, attempt by attempt,
\* requests counted.
InitF ==
    /\ InitRequestIdle
    /\ InitFan
    /\ InitDeriveIdle
    /\ cap = CapIdle /\ ctx = CtxIdle /\ cli = CliIdle /\ jules = JulesIdle
    /\ stats = StatsIdle /\ hdr = HdrIdle

NextF ==
    \/ \E i \in Positions, ep \in Endpoints : ClientFetchAttempt(i, ep)
    \/ \E i \in Positions : ClientEnrichDone(i)
    \/ ReturnResults

SpecFan == InitF /\ [][NextF]_vars

\* Concurrent _request calls on one GitHubClient.
InitH ==
    /\ impl = "client"
    /\ InitRequestIdle
    /\ InitEnrichIdle
    /\ InitDeriveIdle
    /\ InitHeaders
    /\ cap = CapIdle /\ ctx = CtxIdle /\ cli = CliIdle /\ jules = JulesIdle
    /\ stats = StatsIdle /\ fan = FanIdle

NextH ==
    \E t \in DOMAIN hdr.calls :
        \/ HdrCopy(t)
        \/ HdrAccept(t)
        \/ HdrKwargs(t)
        \/ HdrSend(t)

SpecHeaders == InitH /\ [][NextH]_vars

\* fetch_enriched_pull_requests of either class on a list of any length.
InitC ==
    /\ impl \in {"client", "service"}
    /\ InitRequestIdle
    /\ InitEnrichIdle
    /\ InitDeriveIdle
    /\ InitCap
    /\ ctx = CtxIdle /\ cli = CliIdle /\ jules = JulesIdle /\ stats = StatsIdle
    /\ fan = FanIdle /\ hdr = HdrIdle

NextC ==
    \/ CapFetchPullRequests
    \/ CapSubmit
    \/ CapRunEnrich
    \/ CapCollect
    \/ CapServiceIteration
    \/ CapReturn

SpecCap == InitC /\ [][NextC]_vars

\* One fetch_core_repo_context call of either class.
InitX ==
    /\ impl \in {"client", "service"}
    /\ InitRequestIdle
    /\ InitEnrichIdle
    /\ InitDeriveIdle
    /\ InitContext
    /\ cap = CapIdle /\ cli = CliIdle /\ jules = JulesIdle /\ stats = StatsIdle
    /\ fan = FanIdle /\ hdr = HdrIdle

NextX ==
    \/ \E k \in 1..4 : CtxFetch(k)
    \/ CtxReturn

SpecContext == InitX /\ [][NextX]_vars

\* One run of the command line.
InitM ==
    /\ impl = "service"
    /\ InitRequestIdle
    /\ InitEnrichIdle
    /\ InitDeriveIdle
    /\ InitCLI
    /\ cap = CapIdle /\ ctx = CtxIdle /\ jules = JulesIdle /\ stats = StatsIdle
    /\ fan = FanIdle /\ hdr = HdrIdle

NextM ==
    \/ CliCheckCredentials
    \/ CliConstruct
    \/ CliDispatch
    \/ CliCall
    \/ CliPrintResult

SpecCLI == InitM /\ [][NextM]_vars

\* One JulesService.list_sessions call.
InitJ ==
    /\ impl = "service"
    /\ InitRequestIdle
    /\ InitEnrichIdle
    /\ InitDeriveIdle
    /\ InitJules
    /\ cap = CapIdle /\ ctx = CtxIdle /\ cli = CliIdle /\ stats = StatsIdle
    /\ fan = FanIdle /\ hdr = HdrIdle

NextJ == JulesPage

SpecJules == InitJ /\ [][NextJ]_vars

\* One GithubService.fetch_repo_stats call.
InitS ==
    /\ impl = "service"
    /\ InitRequestIdle
    /\ InitEnrichIdle
    /\ InitDeriveIdle
    /\ InitStats
    /\ cap = CapIdle /\ ctx = CtxIdle /\ cli = CliIdle /\ jules = JulesIdle
    /\ fan = FanIdle /\ hdr = HdrIdle

NextS ==
    \/ StatsFetchMetadata
    \/ StatsSearchAndReturn

SpecStats == InitS /\ [][NextS]_vars

(***************************************************************************)
(* Claims about the _request calls, checked under Spec.                    *)
(***************************************************************************)
RECURSIVE SumSeq(_)
SumSeq(q) == IF q = << >> THEN 0 ELSE Head(q) + SumSeq(Tail(q))

LastOutcome == outcomes[Len(outcomes)]

\* C1: GitHubClient._request makes at most 3 attempts and stops at the first
\* attempt that succeeds: only the latest attempt can be a success, a success
\* ends the call at once, and the value returned is the one read from the
\* response of that attempt (k-1 failures then a success: exactly k attempts).
C1_StopsAtFirstSuccess ==
    impl = "client" =>
        /\ attempts = Len(outcomes)
        /\ attempts <= 3
        /\ \A i \in 1..(Len(outcomes) - 1) : outcomes[i] = "fail"
        /\ (pc = "done") <=> (attempts >= 1 /\ LastOutcome = "ok")
        /\ pc = "done" =>
            /\ lastResp.kind = "response"
            /\ result \in {EmptyObj, Text(lastResp.body), Json(lastResp.body)}
        /\ pc # "done" => result = NoResult

C1_Witness ==
    /\ impl = "client"
    /\ pc = "done"
    /\ outcomes = <<"fail", "fail", "ok">>
    /\ attempts = 3

\* C2: when all 3 attempts of GitHubClient._request fail the call raises in
\* the step of the 3rd failure (no 4th attempt, nothing returned), it raises
\* in no other case, and the exception that reaches the caller is the one
\* raised inside the 3rd attempt.
C2_RaisesAfterThird ==
    impl = "client" =>
        /\ attempts <= 3
        /\ (pc = "raised") <=> (outcomes = <<"fail", "fail", "fail">>)
        /\ pc = "raised" =>
            /\ attempts = 3
            /\ result = NoResult
            /\ error # NoExc
            /\ error = excs[3]
            /\ (lastResp = ConnectionFailure) => (error = ConnectionError)
        /\ pc # "raised" => error = NoExc

C2_Witness ==
    /\ impl = "client"
    /\ pc = "raised"
    /\ attempts = 3
    /\ excs[1] = ConnectionError
    /\ excs[2] = RateLimitExc
    /\ error = Exc("Error: 500")

\* C3: every GitHub API call, those of GithubService included, is re-attempted
\* after a failed first attempt: a failure reaches the caller only after 3
\* attempts.
C3_EveryCallRetried ==
    pc = "raised" => attempts = 3

\* C4: the sleeps of GitHubClient._request are 1 second before the 2nd attempt
\* and 2 seconds before the 3rd; there is exactly one sleep between two
\* attempts and none before the first attempt, after a success or after the
\* final failure, so a call sleeps at most 3 seconds.
C4_Backoff ==
    impl = "client" =>
        /\ Len(sleeps) <= 2
        /\ \A i \in 1..Len(sleeps) : sleeps[i] = i
        /\ pc = "attempt" => Len(sleeps) = attempts
        /\ pc = "backoff" => (Len(sleeps) = attempts - 1 /\ LastOutcome = "fail")
        /\ pc = "done" => Len(sleeps) = attempts - 1
        /\ pc = "raised" => (Len(sleeps) = 2 /\ attempts = 3)
        /\ SumSeq(sleeps) <= 3

C4_Witness ==
    /\ impl = "client"
    /\ pc = "raised"
    /\ sleeps = <<1, 2>>

Is2xx(status) == 200 <= status /\ status < 300

\* C5: in both _request methods a response with status 429, or 403 with a
\* remaining header of '0', raises the fixed rate-limit failure; every other
\* non-2xx response raises an API error with the provider's message when the
\* body is a JSON object that has one and 'Error: <status>' otherwise; no 2xx
\* response raises either of them.
C5_Classification ==
    lastResp.kind = "response" =>
        LET raisedExc == excs[Len(excs)]
            limited == \/ lastResp.status = 429
                       \/ (lastResp.status = 403 /\ lastResp.remaining = "0")
        IN  /\ limited => raisedExc = RateLimitExc
            /\ (~limited /\ ~Is2xx(lastResp.status)) =>
                   raisedExc = Exc(IF lastResp.body = "obj_msg"
                                   THEN ProviderMessage
                                   ELSE "Error: " \o ToString(lastResp.status))
            /\ Is2xx(lastResp.status) => raisedExc.type # "Exception"

\* C6: a 204 response to a non-GET request ends the call (of either class)
\* with the empty object as its result, without reading the response body
\* and without using up a retry.
C6_NoContent ==
    (lastResp.kind = "response" /\ lastResp.status = 204 /\ method # "GET") =>
        /\ pc = "done"
        /\ result = EmptyObj
        /\ ~parsed
        /\ LastOutcome = "ok"
        /\ error = NoExc
        /\ impl = "client" => retries = RetryBudget - (attempts - 1)

C6_Witness ==
    /\ lastResp.kind = "response"
    /\ lastResp.status = 204
    /\ method = "DELETE"
    /\ impl = "service"
    /\ result = EmptyObj

(***************************************************************************)
(* Claims about the enrichment, checked under SpecEnrich.                  *)
(***************************************************************************)
\* The record of results made for position i of subset.
RecordOf(i) ==
    LET k == CHOOSE k \in 1..Len(results) : results[k].number = subset(prs)[i].number
    IN  results[k]

FailedEndpoints(i) == {ep \in Endpoints : fetches[i][ep].st = "failed"}

AllDefaults ==
    [testStatus |-> "unknown", checkResults |-> << >>, isApproved |-> FALSE,
     isBig |-> FALSE, isReadyToMerge |-> FALSE, isLeaderBranch |-> FALSE]

\* C7: when any of the three fetches of a pull request (details, reviews,
\* check-runs) failed, its record is the list entry with all six derived
\* members at their defaults: testStatus unknown, checkResults [], isApproved,
\* isBig, isReadyToMerge and isLeaderBranch false.
C7_DegradedOnAnyFailure ==
    \A i \in produced :
        FailedEndpoints(i) # {} => RecordOf(i) = Merge(subset(prs)[i], AllDefaults)

\* The derived members expected for pull request n from the provider's data.
ExpectedDerived(n) ==
    CASE n = 1 -> [testStatus |-> "passed", isApproved |-> TRUE, isBig |-> TRUE,
                   isReadyToMerge |-> TRUE, isLeaderBranch |-> TRUE, checks |-> 1]
      [] n = 2 -> [testStatus |-> "failed", isApproved |-> FALSE, isBig |-> FALSE,
                   isReadyToMerge |-> FALSE, isLeaderBranch |-> FALSE, checks |-> 2]
      [] n = 3 -> [testStatus |-> "unknown", isApproved |-> FALSE, isBig |-> FALSE,
                   isReadyToMerge |-> FALSE, isLeaderBranch |-> TRUE, checks |-> 0]
      [] OTHER -> [testStatus |-> "pending", isApproved |-> TRUE, isBig |-> FALSE,
                   isReadyToMerge |-> TRUE, isLeaderBranch |-> TRUE, checks |-> 2]

\* rec carries the members derived from pull request n's own three responses
\* (from an empty check-run list when the check-runs request failed).
FullyDerived(rec, n, checksFailed) ==
    LET e == ExpectedDerived(n) IN
    /\ "base" \in DOMAIN rec
    /\ rec.base = UpstreamDetails(n).base
    /\ rec.number = n
    /\ rec.testStatus = (IF checksFailed THEN "unknown" ELSE e.testStatus)
    /\ Len(rec.checkResults) = (IF checksFailed THEN 0 ELSE e.checks)
    /\ rec.isApproved = e.isApproved
    /\ rec.isBig = e.isBig
    /\ rec.isReadyToMerge = e.isReadyToMerge
    /\ rec.isLeaderBranch = e.isLeaderBranch

\* rec is the list entry pr with the derived members at their defaults.
Degraded(rec, pr) ==
    /\ \A k \in DOMAIN pr : k \in DOMAIN rec /\ rec[k] = pr[k]
    /\ "base" \notin DOMAIN rec
    /\ rec.testStatus = "unknown"
    /\ rec.isApproved = FALSE
    /\ rec.isBig = FALSE
    /\ rec.isReadyToMerge = FALSE
    /\ rec.isLeaderBranch = FALSE

AnyFailed(cr) ==
    \E i \in 1..Len(cr) : cr[i].conclusion \in {"failure", "timed_out"}
AnyIncomplete(cr) == \E i \in 1..Len(cr) : cr[i].status # "completed"

\* C9: testStatus is failed iff some check-run concluded failure or timed_out;
\* otherwise pending iff some check-run is not completed; otherwise passed iff
\* there is a check-run; otherwise (no check-run) unknown.
C9_TestStatusPrecedence ==
    (d_kind = "checks" /\ d_out.derived) =>
        LET ts == d_out.value IN
        /\ ts \in {"failed", "pending", "passed", "unknown"}
        /\ (ts = "failed") <=> AnyFailed(d_in)
        /\ (ts = "pending") <=> (~AnyFailed(d_in) /\ AnyIncomplete(d_in))
        /\ (ts = "passed") <=>
               (~AnyFailed(d_in) /\ ~AnyIncomplete(d_in) /\ Len(d_in) > 0)
        /\ (ts = "unknown") <=> (Len(d_in) = 0)

\* One failed run among a passed one and an incomplete one.
C9_Witness ==
    /\ d_kind = "checks"
    /\ d_out = Derived("failed")
    /\ Len(d_in) = 3
    /\ d_in[1].conclusion = "success" /\ d_in[1].status = "completed"
    /\ d_in[2].status = "in_progress" /\ d_in[2].conclusion = "null"
    /\ d_in[3].conclusion = "timed_out"

MaxOf(S) == CHOOSE x \in S : \A y \in S : y <= x

\* The state of the last review of each login of the list.
CollapsedStates(rs) ==
    {rs[MaxOf({i \in 1..Len(rs) : rs[i].user.login = l})].state :
        l \in {rs[i].user.login : i \in 1..Len(rs)}}

\* C10: isApproved is true iff the reviews, collapsed to the last state of
\* each login, contain APPROVED and no CHANGES_REQUESTED.
C10_IsApproved ==
    (d_kind = "reviews" /\ d_out.derived) =>
        /\ d_out.value <=> /\ "APPROVED" \in CollapsedStates(d_in)
                           /\ "CHANGES_REQUESTED" \notin CollapsedStates(d_in)
        /\ d_in = <<Review("A", "APPROVED"), Review("A", "CHANGES_REQUESTED")>>
               => d_out.value = FALSE
        /\ d_in = <<Review("A", "CHANGES_REQUESTED"), Review("A", "APPROVED")>>
               => d_out.value = TRUE

C10_Witness ==
    /\ d_kind = "reviews"
    /\ d_in = <<Review("A", "CHANGES_REQUESTED"), Review("A", "APPROVED")>>
    /\ d_out = Derived(TRUE)

(***************************************************************************)
(* Claims about the fan-out on long lists, checked under SpecCap.          *)
(***************************************************************************)
\* C11: enrichment is capped to the first 50 entries of the fetched list: the
\* three fetches are issued only for pull requests among the first 50 of the
\* list, at most 50 of them, and the result never holds more than 50 records
\* (exactly min(50, length) when the call returns), however long the list.
C11_CappedAtFifty ==
    /\ cap.pc \in {"submit", "loop", "done"} =>
        /\ cap.collected <= 50
        /\ cap.ran <= 50
        /\ Cardinality(cap.issued) = cap.ran
        /\ \A n \in cap.issued :
               \E i \in 1..Min(50, Len(cap.listed)) : cap.listed[i].number = n
    /\ cap.pc = "done" =>
        /\ cap.collected = Min(50, Len(cap.listed))
        /\ Cardinality(cap.issued) = Min(50, Len(cap.listed))

\* A list of 51 pull requests enriched by GitHubClient.
C11_Witness ==
    /\ impl = "client"
    /\ cap.pc = "done"
    /\ Len(cap.listed) = 51
    /\ cap.collected = 50
    /\ 51 \notin cap.issued

\* The value of changed_files when absent or null counts as 0.
ChangedFilesOrZero(details) ==
    IF "changed_files" \notin DOMAIN details THEN 0
    ELSE IF details.changed_files = JNull THEN 0
    ELSE details.changed_files.v

\* C12: a missing or null changed_files in the details is treated as 0: isBig
\* is false and the record is still built from the responses (testStatus,
\* checkResults and isApproved come from the check-runs and reviews fetched,
\* not from the defaults); isBig is true exactly when changed_files > 15.
C12_NullChangedFilesIsZero ==
    (d_kind = "details" /\ d_out.derived) =>
        LET rec == d_out.value IN
        /\ rec.isBig <=> (ChangedFilesOrZero(d_in.details) > 15)
        /\ rec.testStatus = "passed"
        /\ "checkResults" \in DOMAIN rec
        /\ Len(rec.checkResults) = 1
        /\ rec.isApproved = TRUE

\* The record is the one of the except clause.
FellBack ==
    d_out.value = (IF impl = "client" THEN Client_fallback(ListEntry(1))
                   ELSE Service_fallback(ListEntry(1)))

\* The spellings of the model whose lower-case form is a leader branch.
LeaderSpellings ==
    {"leader", "LEADER", "main", "Main", "master", "MASTER", "develop", "Develop"}

\* C18: in a record built from the details, isLeaderBranch is true iff the
\* base ref, lower-cased, is one of leader, main, master, develop: true for
\* Main, LEADER and develop, false for feature/x.
C18_IsLeaderBranch ==
    (d_kind = "details" /\ d_out.derived /\ ~FellBack) =>
        LET ref == d_in.details.base.ref
            leader == d_out.value.isLeaderBranch
        IN  /\ leader <=> (ref \in LeaderSpellings)
            /\ ref \in {"Main", "LEADER", "develop"} => leader = TRUE
            /\ ref = "feature/x" => leader = FALSE

C18_Witness ==
    /\ d_kind = "details"
    /\ d_out.derived
    /\ ~FellBack
    /\ d_in.details.base.ref = "LEADER"
    /\ d_out.value.isLeaderBranch = TRUE
    /\ d_out.value.testStatus = "passed"

(***************************************************************************)
(* Claims about the repository context, checked under SpecContext.         *)
(***************************************************************************)
\* The text of the provider's file of the given length, as characters.
FileText(len) == [i \in 1..len |-> 32 + ((7 * i) % 95)]

FirstChars(text, n) == [i \in 1..(IF Len(text) < n THEN Len(text) ELSE n) |-> text[i]]

\* The text member a contents outcome determines: the first 1500 characters
\* of the file, and the empty string for a failure or an unusable response.
ExpectedText(o) ==
    IF o.kind = "file" THEN PyStr(FirstChars(FileText(o.len), 1500))
    ELSE PyStr(<< >>)

ExpectedFileLists(o) ==
    CASE o.kind = "directory" /\ o.len = 2 -> {"README.md, src"}
      [] o.kind = "directory" -> {""}
      [] o.kind = "file" -> {"unknown"}
      [] OTHER -> {"unknown", ""}

\* C13: fetch_core_repo_context never raises: a failure or an unusable result
\* of one of its four fetches (root listing, README, package manifest,
\* workflow directory) is replaced by that member's default (file list
\* 'unknown' or empty, README '', package manifest '', hasCI false) and the
\* other members are as their own fetches determine.
C13_ContextNeverRaises ==
    /\ ctx.pc # "raised"
    /\ ctx.pc = "done" =>
        /\ ctx.result.fileList \in ExpectedFileLists(ctx.out["root"])
        /\ ctx.result.readmeSnippet = ExpectedText(ctx.out["readme"])
        /\ ctx.result.packageJson = ExpectedText(ctx.out["pkg"])
        /\ ctx.result.hasCI <=>
              (ctx.out["ci"].kind = "directory" /\ ctx.out["ci"].len > 0)

\* C17: readmeSnippet and packageJson of a returned context are at most 1500
\* characters long and are the first 1500 characters of the base64-decoded
\* content of the file (decoded first, then truncated); a file shorter than
\* 1500 characters is returned whole.
C17_SnippetAfterDecoding ==
    ctx.pc = "done" =>
        \A f \in {"readme", "pkg"} :
            LET o == ctx.out[f]
                v == IF f = "readme" THEN ctx.result.readmeSnippet
                     ELSE ctx.result.packageJson
            IN  o.kind = "file" =>
                    /\ v.py = "str"
                    /\ Len(v.chars) <= 1500
                    /\ Len(v.chars) = (IF o.len < 1500 THEN o.len ELSE 1500)
                    /\ \A i \in 1..Len(v.chars) : v.chars[i] = FileText(o.len)[i]
                    /\ o.len < 1500 => v.chars = FileText(o.len)

\* A README of 1501 characters and a package manifest of 2, from GithubService.
C17_Witness ==
    /\ impl = "service"
    /\ ctx.pc = "done"
    /\ ctx.out["readme"] = [kind |-> "file", len |-> 1501]
    /\ ctx.out["pkg"] = [kind |-> "file", len |-> 2]
    /\ Len(ctx.result.readmeSnippet.chars) = 1500
    /\ ctx.result.packageJson.chars = <<39, 46>>

(***************************************************************************)
(* Claims about the command line, checked under SpecCLI.                   *)
(***************************************************************************)
CredentialMissing ==
    cli.env.GITHUB_TOKEN = "absent" \/ cli.env.GEMINI_API_KEY = "absent"

\* C14: when GITHUB_TOKEN or GEMINI_API_KEY is missing, main prints one error
\* line and returns, for every subcommand: it does not raise, no service
\* object is constructed and no call that reaches the network is made.
C14_MissingCredentials ==
    (cli.pc # "start" /\ CredentialMissing) =>
        /\ cli.pc = "returned"
        /\ Len(cli.printed) = 1
        /\ cli.printed[1] \in
              {"Error: GITHUB_TOKEN environment variable not set.",
               "Error: GEMINI_API_KEY environment variable not set."}
        /\ cli.env.GITHUB_TOKEN = "absent" =>
              cli.printed[1] = "Error: GITHUB_TOKEN environment variable not set."
        /\ cli.constructed = {}
        /\ cli.calls = << >>

C14_Witness ==
    /\ cli.command = "briefing"
    /\ cli.env.GITHUB_TOKEN = "set"
    /\ cli.env.GEMINI_API_KEY = "absent"
    /\ cli.pc = "returned"
    /\ cli.printed = <<"Error: GEMINI_API_KEY environment variable not set.">>
    /\ cli.constructed = {}

(***************************************************************************)
(* Further claims about the enrichment, checked under SpecEnrich.          *)
(***************************************************************************)
\* C15: the enrichment never mutates the pull-request objects of the fetched
\* list: at every point, and so when the call returns, on the full path and
\* on the fallback path, every entry of the list has the members and values
\* fetch_pull_requests gave it, and each record is another object than the
\* entry it was made for.
C15_InputsNotMutated ==
    /\ \A i \in 1..Len(prs) : prs[i] = ListEntry(i)
    /\ shared = {}
    /\ \A i \in produced : RecordOf(i) # prs[i]

\* GitHubClient returned one fallback record and one full record.
C15_Witness ==
    /\ impl = "client"
    /\ phase = "done"
    /\ Len(prs) = 2
    /\ FailedEndpoints(1) = {"reviews"}
    /\ FailedEndpoints(2) = {}
    /\ RecordOf(1) = Client_fallback(ListEntry(1))
    /\ RecordOf(2).testStatus = "failed"
    /\ prs = <<ListEntry(1), ListEntry(2)>>

(***************************************************************************)
(* Claims about JulesService.list_sessions, checked under SpecJules.       *)
(***************************************************************************)
HasToken(page) ==
    page.nextPageToken # NoMember /\ page.nextPageToken.s # ""

SessionsOf(page) == IF page.sessions = NoMember THEN << >> ELSE page.sessions.items

RECURSIVE ConcatSessions(_)
ConcatSessions(pages) ==
    IF pages = << >> THEN << >>
    ELSE SessionsOf(Head(pages)) \o ConcatSessions(Tail(pages))

\* C16: list_sessions makes at most 5 page requests whatever the server
\* answers (a nextPageToken on every page included), requests a further page
\* only after a page with a nextPageToken, so that it stops after the first
\* page without one, and returns the sessions of exactly the pages it
\* fetched, concatenated in page order; one page with one session and no
\* token gives that session after one request.
C16_ListSessions ==
    /\ Len(jules.requests) <= 5
    /\ Len(jules.served) <= Len(jules.requests)
    /\ jules.pc = "loop" => Len(jules.requests) < 5
    /\ \A k \in 1..(Len(jules.requests) - 1) :
          k <= Len(jules.served) /\ HasToken(jules.served[k])
    /\ jules.pc = "done" =>
        /\ Len(jules.served) = Len(jules.requests)
        /\ Len(jules.served) >= 1
        /\ Len(jules.served) = 5 \/ ~HasToken(jules.served[Len(jules.served)])
        /\ jules.result = Value(ConcatSessions(jules.served))
        /\ (Len(jules.served) = 1 /\ SessionsOf(jules.served[1]) = <<Session(1, 1)>>)
              => jules.result = Value(<<Session(1, 1)>>)
    /\ jules.pc # "done" => jules.result = NoResult

\* A nextPageToken on every page: 5 requests, the sessions of the 5 pages.
C16_Witness ==
    /\ jules.pc = "done"
    /\ Len(jules.requests) = 5
    /\ \A k \in 1..5 : HasToken(jules.served[k])
    /\ Len(jules.result.value) = 5
    /\ jules.result.value[1] = Session(1, 1)
    /\ jules.result.value[5] = Session(5, 1)

(***************************************************************************)
(* Claims about GithubService.fetch_repo_stats, checked under SpecStats.   *)
(***************************************************************************)
\* C19: fetch_repo_stats reports openIssuesCount equal to the provider's
\* open_issues_count and stars equal to stargazers_count; a failing search
\* for open pull requests, or a search response without total_count, gives
\* openPRsCount 0 and does not fail the call; the call raises only when the
\* fetch of the repository metadata failed.
C19_RepoStats ==
    /\ stats.pc = "raised" <=> stats.data = Raised
    /\ stats.pc = "raised" => stats.search = NotRequested
    /\ stats.pc = "done" =>
        LET r == stats.result.value
            d == stats.data.value
            counted == /\ ~stats.search.raised
                       /\ stats.search.value.py = "dict"
                       /\ "total_count" \in DOMAIN stats.search.value.fields
        IN  /\ r.openIssuesCount = d.open_issues_count
            /\ r.stars = d.stargazers_count
            /\ counted => r.openPRsCount = stats.search.value.fields.total_count
            /\ ~counted => r.openPRsCount = 0

\* The metadata of the test, with the search failing.
C19_Witness ==
    /\ stats.pc = "done"
    /\ stats.search = Raised
    /\ stats.result.value.openIssuesCount = 10
    /\ stats.result.value.stars = 100
    /\ stats.result.value.forks = 20
    /\ stats.result.value.openPRsCount = 0

\* C20: in GitHubClient.fetch_enriched_pull_requests the record of a pull
\* request, full or fallback, is produced only after its three fetches have
\* each completed or failed: in no interleaving does a record exist while a
\* fetch of its pull request is in flight, also when the details fetch has
\* failed before the other two finish.
C20_JoinBarrier ==
    impl = "client" =>
        /\ \A i \in produced : \A ep \in Endpoints : Finished(fetches[i][ep])
        /\ \A i \in Positions :
              (\E ep \in Endpoints : fetches[i][ep].st = "running") => i \notin produced

\* The details fetch of the 2nd pull request has failed while its other two
\* fetches are in flight: it has no record yet; the 1st one, whose details
\* fetch failed too, got its record after its fetches all ended.
C20_Witness ==
    /\ impl = "client"
    /\ phase = "enrich"
    /\ Len(prs) = 2
    /\ fetches[2]["details"].st = "failed"
    /\ fetches[2]["reviews"].st = "running"
    /\ fetches[2]["checks"].st = "running"
    /\ 2 \notin produced
    /\ fetches[1]["details"].st = "failed"
    /\ 1 \in produced
    /\ results = <<Client_fallback(ListEntry(1))>>

\* The pull-request numbers of a list of records, in order.
Numbers(list) == [k \in 1..Len(list) |-> list[k].number]

IsPermutationOf(q, S) ==
    /\ Len(q) = Cardinality(S)
    /\ {q[k] : k \in 1..Len(q)} = S

\* C21: the pull-request numbers of the output are a permutation of the
\* numbers of the processed entries (none dropped, none twice), in every
\* interleaving of GitHubClient, whose output order is the order in which
\* the records complete; GithubService returns them in input order.
C21_OutputIsPermutation ==
    /\ IsPermutationOf(Numbers(results), {subset(prs)[i].number : i \in produced})
    /\ phase = "done" =>
          IsPermutationOf(Numbers(results),
                          {subset(prs)[i].number : i \in 1..Len(subset(prs))})
    /\ impl = "service" =>
          \A k \in 1..Len(results) : results[k].number = subset(prs)[k].number

\* GitHubClient returned the record of the 2nd pull request before the 1st.
C21_Witness ==
    /\ impl = "client"
    /\ phase = "done"
    /\ Numbers(prs) = <<1, 2>>
    /\ Numbers(results) = <<2, 1>>

(***************************************************************************)
(* Claims about the requests of the fan-out, checked under SpecFan.        *)
(***************************************************************************)
FanFetches == {<<i, ep>> : i \in 1..Len(fan.sent), ep \in Endpoints}

\* The number of requests made so far for fetch x, and its state.
SentFor(x) == fan.sent[x[1]][x[2]]
FetchOf(x) == fetches[x[1]][x[2]]

\* Each fetch has made as many requests as its own retry loop accounts for.
C22_SendsMatchOwnLoop ==
    \A x \in FanFetches :
        /\ SentFor(x) <= 3
        /\ FetchOf(x).st = "running" => SentFor(x) = 2 - FetchOf(x).retries
        /\ FetchOf(x).st = "ok" => SentFor(x) >= 1
        /\ FetchOf(x).st = "failed" => SentFor(x) = 3

\* A step that makes a request makes one request, for a fetch that is in
\* its retry loop, and leaves every other fetch as it is.
C22_OneFetchPerStep ==
    \A x \in FanFetches :
        fan.sent[x[1]][x[2]]' # SentFor(x) =>
            /\ FetchOf(x).st = "running"
            /\ fan.sent[x[1]][x[2]]' = SentFor(x) + 1
            /\ \A y \in FanFetches \ {x} :
                  /\ fan.sent[y[1]][y[2]]' = SentFor(y)
                  /\ fetches[y[1]][y[2]]' = FetchOf(y)

\* C22: during GitHubClient enrichment each of the details, reviews and
\* check-runs endpoints is requested at most 3 times per pull request, and
\* the requests of a fetch are those of its own retry loop: a failure or a
\* retry of one fetch re-issues no fetch of a sibling or of another pull
\* request.
C22_RetriesAreLocal == []C22_SendsMatchOwnLoop /\ [][C22_OneFetchPerStep]_vars

\* The details fetch of the 1st pull request failed after 3 requests while
\* its reviews fetch succeeded at once and a fetch of the 2nd pull request,
\* retried once, is still in flight.
C22_Witness ==
    /\ fan.pc = "count"
    /\ fetches[1]["details"].st = "failed"
    /\ fan.sent[1]["details"] = 3
    /\ fetches[1]["reviews"].st = "ok"
    /\ fan.sent[1]["reviews"] = 1
    /\ fetches[2]["checks"] = Running(1)
    /\ fan.sent[2]["checks"] = 1
    /\ fan.sent[2]["details"] = 0

(***************************************************************************)
(* Further claims about the _request calls, checked under Spec.            *)
(***************************************************************************)
\* The response is a throttling one: 429, or 403 with no requests remaining.
Throttled(t) ==
    t.kind = "response" /\ (t.status = 429 \/ (t.status = 403 /\ t.remaining = "0"))

\* C23: in GitHubClient._request a rate-limited response ends its attempt
\* with the rate-limit failure, before the body is read and before the retry
\* decision; the loop handles it like any raised failure, so it uses up one
\* of the 3 attempts (a backoff and a new attempt follow unless it was the
\* 3rd), and three rate-limited responses in a row make the call raise the
\* rate-limit failure after sleeps of 1 and 2 seconds.
C23_RateLimitedAttempt ==
    impl = "client" =>
        /\ (attempts >= 1 /\ Throttled(lastResp)) =>
              /\ excs[attempts] = RateLimitExc
              /\ outcomes[attempts] = "fail"
              /\ ~parsed
              /\ pc \in {"backoff", "attempt", "raised"}
              /\ pc = "raised" <=> attempts = 3
              /\ pc # "raised" => retries = 2 - attempts
        /\ (attempts >= 1 /\ excs[attempts] = RateLimitExc) => Throttled(lastResp)
        /\ excs = <<RateLimitExc, RateLimitExc, RateLimitExc>> =>
              /\ pc = "raised"
              /\ error = RateLimitExc
              /\ sleeps = <<1, 2>>
              /\ result = NoResult

\* Three responses 403 with a remaining header of 0.
C23_Witness ==
    /\ impl = "client"
    /\ excs = <<RateLimitExc, RateLimitExc, RateLimitExc>>
    /\ lastResp.kind = "response"
    /\ lastResp.status = 403
    /\ lastResp.remaining = "0"
    /\ pc = "raised"
    /\ error = RateLimitExc
    /\ sleeps = <<1, 2>>

\* The HTTP methods of create_issue, add_comment, add_labels (POST),
\* update_issue (PATCH) and delete_branch (DELETE).
MutatingMethods == {"POST", "PATCH", "DELETE"}

\* C26: one call of a mutating GitHubClient operation sends its request at
\* least once and at most 3 times; every attempt that raises before the 3rd
\* is followed by another send, also when the provider answered 2xx and the
\* body failed to parse, so the provider can have applied one call up to 3
\* times and never more.
C26_MutationSends ==
    (impl = "client" /\ method \in MutatingMethods) =>
        /\ attempts <= 3
        /\ applied <= attempts
        /\ pc \in {"done", "raised"} => attempts >= 1
        /\ pc = "raised" => attempts = 3
        /\ (attempts >= 1 /\ outcomes[attempts] = "fail" /\ attempts < 3) =>
              pc \in {"backoff", "attempt"}
        /\ (attempts >= 1 /\ Applied(lastResp) /\ lastResp.status # 204
               /\ ~is_text /\ lastResp.body = "invalid") =>
              /\ outcomes[attempts] = "fail"
              /\ attempts < 3 => pc \in {"backoff", "attempt"}

\* create_issue: the provider answered 200 three times, each time with a
\* body that does not parse; the request was sent 3 times and the call raised.
C26_Witness ==
    /\ impl = "client"
    /\ method = "POST"
    /\ ~is_text
    /\ attempts = 3
    /\ applied = 3
    /\ excs = <<JSONDecodeError, JSONDecodeError, JSONDecodeError>>
    /\ pc = "raised"

(***************************************************************************)
(* Determinism of the concurrent enrichment, checked under SpecEnrich.     *)
(***************************************************************************)
\* The record of pull request n as its own three responses determine it,
\* given which of its fetches failed.
OwnRecord(n, failed) ==
    IF "details" \in failed \/ "reviews" \in failed
    THEN Merge(ListEntry(n),
               [testStatus |-> "unknown", isApproved |-> FALSE, isBig |-> FALSE,
                isReadyToMerge |-> FALSE, isLeaderBranch |-> FALSE])
    ELSE LET e == ExpectedDerived(n)
             runs == IF "checks" \in failed THEN << >>
                     ELSE UpstreamCheckRuns(n).check_runs
         IN  Merge(UpstreamDetails(n),
                   [testStatus |-> IF "checks" \in failed THEN "unknown"
                                   ELSE e.testStatus,
                    checkResults |-> [k \in 1..Len(runs) |->
                        [name |-> runs[k].name, status |-> runs[k].status,
                         conclusion |-> runs[k].conclusion,
                         url |-> runs[k].html_url]],
                    isApproved |-> e.isApproved,
                    isBig |-> e.isBig,
                    isReadyToMerge |-> e.isReadyToMerge,
                    isLeaderBranch |-> e.isLeaderBranch])

\* C24: for given responses (the list, and per pull request its details,
\* reviews and check-runs or the final failure of their fetch) the records
\* GitHubClient returns are the same set in every interleaving and
\* completion order: each record is the one its own pull request's three
\* responses determine, whatever the other pull requests' responses are and
\* whichever records were completed before it.
C24_RecordsAreOwnFunction ==
    impl = "client" =>
        /\ \A i \in produced :
              RecordOf(i) = OwnRecord(subset(prs)[i].number, FailedEndpoints(i))
        /\ phase = "done" =>
              {results[k] : k \in 1..Len(results)} =
                  {OwnRecord(subset(prs)[i].number, FailedEndpoints(i)) :
                       i \in 1..Len(subset(prs))}

\* The 2nd pull request (changes requested) completed before the 1st
\* (approved): each record has its own review decision and test status.
C24_Witness ==
    /\ impl = "client"
    /\ phase = "done"
    /\ Numbers(results) = <<2, 1>>
    /\ FailedEndpoints(1) = {} /\ FailedEndpoints(2) = {}
    /\ results[1].isApproved = FALSE /\ results[1].testStatus = "failed"
    /\ results[2].isApproved = TRUE /\ results[2].testStatus = "passed"

\* The response to the fetch of endpoint ep of pull request n, or its failure.
ResponseOf(n, ep, failed) ==
    IF ep \in failed THEN Raised
    ELSE Value(CASE ep = "details" -> UpstreamDetails(n)
                 [] ep = "reviews" -> UpstreamReviews(n)
                 [] OTHER -> UpstreamCheckRuns(n))

\* C25: GithubService and GitHubClient enrich alike: for the same responses
\* (failed fetches included) the record of each pull request, as returned by
\* the class that ran, is also the record the other class builds, with the
\* same keys and values.
C25_ClassesAgree ==
    \A i \in produced :
        LET pr == subset(prs)[i]
            failed == FailedEndpoints(i)
            d == ResponseOf(pr.number, "details", failed)
            r == ResponseOf(pr.number, "reviews", failed)
            c == ResponseOf(pr.number, "checks", failed)
        IN  /\ RecordOf(i) = Client_enrich_pr(pr, d, r, c).value
            /\ RecordOf(i) = Service_enrich_pr(pr, d, r, c).value

(***************************************************************************)
(* Further claims about the derivation rules, checked under SpecDerive.    *)
(***************************************************************************)
\* The index of the last review of login l in the list rs.
LastReviewOf(rs, l) == MaxOf({i \in 1..Len(rs) : rs[i].user.login = l})

\* Login a approved, later reviewed again ending on COMMENTED or DISMISSED,
\* nobody else approved and nobody requested changes.
ApprovalSuperseded(rs) ==
    \E a \in Logins :
        /\ \E i \in 1..Len(rs) : rs[i].user.login = a /\ rs[i].state = "APPROVED"
        /\ rs[LastReviewOf(rs, a)].state \in {"COMMENTED", "DISMISSED"}
        /\ \A i \in 1..Len(rs) :
              /\ rs[i].state # "CHANGES_REQUESTED"
              /\ rs[i].state = "APPROVED" => rs[i].user.login = a

\* C27: a reviewer's later review of any state replaces their earlier one
\* before approval is computed: when the only approving reviewer's last
\* review of the list is COMMENTED or DISMISSED, isApproved is false in both
\* classes, although that reviewer approved earlier and nobody requested
\* changes.
C27_LaterReviewReplaces ==
    (d_kind = "reviews" /\ d_out.derived /\ ApprovalSuperseded(d_in)) =>
        d_out.value = FALSE

\* A approved, B commented, then A's approval was dismissed.
C27_Witness ==
    /\ d_kind = "reviews"
    /\ d_in = <<Review("A", "APPROVED"), Review("B", "COMMENTED"),
                Review("A", "DISMISSED")>>
    /\ d_out = Derived(FALSE)

(***************************************************************************)
(* Further claims about the command line, checked under SpecCLI.           *)
(***************************************************************************)
\* The service methods that change something at the provider.
MutatingCalls == {"create_issue", "update_issue", "add_comment", "create_session",
                  "send_message", "delete_session"}

\* C28: no subcommand issues a mutating request: whatever the subcommand and
\* whichever of its calls fail, every request sent to the GitHub and Jules
\* APIs is a GET, and no method that creates, updates or deletes is called;
\* jules-cleanup lists the sessions and deletes none.
C28_OnlyGetRequests ==
    /\ \A rq \in cli.sent : rq.api \in {"github", "jules"} /\ rq.method = "GET"
    /\ \A k \in 1..Len(cli.calls) : cli.calls[k] \notin MutatingCalls
    /\ (cli.command = "jules-cleanup" /\ cli.pc = "returned" /\ cli.calls # << >>) =>
          /\ cli.calls =
                <<"list_sessions", "fetch_pull_requests", "fetch_issues",
                  "analyze_jules_cleanup">>
          /\ cli.sent = {[api |-> "jules", method |-> "GET"],
                         [api |-> "github", method |-> "GET"]}

\* jules-cleanup ran to its end.
C28_Witness ==
    /\ cli.command = "jules-cleanup"
    /\ cli.pc = "returned"
    /\ Len(cli.calls) = 4
    /\ cli.calls[1] = "list_sessions"
    /\ [api |-> "jules", method |-> "GET"] \in cli.sent
    /\ cli.printed[Len(cli.printed)] = "result"

JulesKeyError == "Error: JULES_API_KEY environment variable not set."

\* C30: the JULES_API_KEY error branch of jules-cleanup is unreachable:
\* whenever main reaches the dispatch on the subcommand, GEMINI_API_KEY is
\* set, so jules_key, which falls back to it, is non-empty also without
\* JULES_API_KEY; the error line is never printed and jules-cleanup always
\* goes on to construct JulesService.
C30_JulesKeyBranchDead ==
    /\ \A k \in 1..Len(cli.printed) : cli.printed[k] # JulesKeyError
    /\ cli.pc \in {"dispatch", "run"} =>
          /\ cli.env.GEMINI_API_KEY = "set"
          /\ IsSet(jules_key(cli.env))
    /\ (cli.command = "jules-cleanup" /\ cli.pc = "run") =>
          "JulesService" \in cli.constructed

\* jules-cleanup without JULES_API_KEY: the Gemini key is used.
C30_Witness ==
    /\ cli.command = "jules-cleanup"
    /\ cli.env.JULES_API_KEY = "absent"
    /\ cli.env.GEMINI_API_KEY = "set"
    /\ cli.pc = "run"
    /\ "JulesService" \in cli.constructed
    /\ cli.calls = <<"list_sessions">>

(***************************************************************************)
(* Claims about the request headers, checked under SpecHeaders.            *)
(***************************************************************************)
SharedHeadersIntact ==
    hdr.heap["self.headers"] =
        [k \in {"Authorization", "Accept", "Content-Type"} |->
            CASE k = "Authorization" -> "token t"
              [] k = "Accept" -> "application/vnd.github.v3+json"
              [] OTHER -> "application/json"]

SentCalls == {t \in DOMAIN hdr.calls : hdr.calls[t].request.sent}

AcceptSent(t) == hdr.calls[t].request.headers["Accept"]

AcceptByIsText(t) ==
    IF hdr.calls[t].is_text THEN "application/vnd.github.v3.diff"
    ELSE "application/vnd.github.v3+json"

OverridesAccept(t) ==
    hdr.calls[t].kwargs # NoHeaders /\ "Accept" \in DOMAIN hdr.calls[t].kwargs.dict

\* C29 as stated: self.headers is never modified, and every request without
\* is_text is sent with the JSON Accept header and every is_text request
\* with the diff Accept header, extra headers or not.
C29_AcceptFollowsIsText ==
    /\ SharedHeadersIntact
    /\ \A t \in SentCalls : AcceptSent(t) = AcceptByIsText(t)

\* C29, amended: self.headers is never modified by any interleaving of
\* concurrent calls, and a request is sent with the Accept header its own
\* is_text selects unless the caller's extra headers name Accept, in which
\* case the caller's value is sent; the other default headers are sent
\* unless overridden, and the extra headers are sent as given.
C29_SharedHeadersUnchanged ==
    /\ SharedHeadersIntact
    /\ \A t \in SentCalls :
          LET call == hdr.calls[t]
              h == call.request.headers
          IN  /\ ~OverridesAccept(t) => AcceptSent(t) = AcceptByIsText(t)
              /\ OverridesAccept(t) => AcceptSent(t) = call.kwargs.dict["Accept"]
              /\ h["Authorization"] = "token t"
              /\ h["Content-Type"] = "application/json"
              /\ call.kwargs # NoHeaders =>
                    \A k \in DOMAIN call.kwargs.dict : h[k] = call.kwargs.dict[k]

\* A diff request and a JSON request with an extra header, interleaved: the
\* diff request changed its Accept header while the other held its copy.
C29_Witness ==
    /\ DOMAIN hdr.calls = {1, 2}
    /\ hdr.calls[1].is_text /\ hdr.calls[1].kwargs = NoHeaders
    /\ ~hdr.calls[2].is_text
    /\ hdr.calls[2].kwargs = ExtraHeaders("X-GitHub-Api-Version" :> "2022-11-28")
    /\ hdr.calls[1].pc = "done" /\ hdr.calls[2].pc = "done"
    /\ AcceptSent(1) = "application/vnd.github.v3.diff"
    /\ AcceptSent(2) = "application/vnd.github.v3+json"
    /\ SharedHeadersIntact

====
